---------------------------- MODULE Spec2Model ----------------------------
(***************************************************************************)
(* Maritime situation-awareness layer: the orchestrator                    *)
(* (situation_awareness_layer.py) and the four modules it drives           *)
(* (sensor_fusion.py, spoofing_detector.py, anomaly_detector.py,           *)
(* uncertainty_modeler.py).                                                *)
(*                                                                         *)
(* Number conventions (the code uses Python floats):                       *)
(*   - quantities in [0,1] (confidence, severity, reliability, quality,    *)
(*     weights) are integers in thousandths, rounded down;                 *)
(*   - positions are <<north, east>> offsets in metres from the point      *)
(*     latitude 0, longitude 0; over the few kilometres used here the      *)
(*     haversine distance is the straight-line distance, rounded down to   *)
(*     whole metres;                                                       *)
(*   - speeds are tenths of a knot, angles whole degrees, times whole      *)
(*     seconds of the wall clock (datetime.now()).                         *)
(* A Python dict is a record with a field "has" (the set of keys that are  *)
(* present) and one field per possible key; a key that is not in "has"     *)
(* carries a default that the code never reads.                            *)
(***************************************************************************)
EXTENDS Integers, Sequences, FiniteSets, TLC

(***************************************************************************)
(* Bounds of the model.                                                    *)
(***************************************************************************)
\* length of the lists handed to a function under test
MaxListLen == 2

\* number of consecutive calls of one module's detect
MaxCalls == 3

\* number of process_sensor_data calls in one behaviour
MaxBatches == 2

\* 1.0 in thousandths
One == 10 * 100

(***************************************************************************)
(* Arithmetic helpers.                                                     *)
(***************************************************************************)
Min(a, b) == IF a <= b THEN a ELSE b

Max(a, b) == IF a >= b THEN a ELSE b

Abs(a) == IF a >= 0 THEN a ELSE -a

RECURSIVE SqrtSearch(_, _, _)
SqrtSearch(n, lo, hi) ==
    IF lo >= hi THEN lo
    ELSE LET mid == (lo + hi + 1) \div 2
         IN  IF mid * mid <= n THEN SqrtSearch(n, mid, hi)
                               ELSE SqrtSearch(n, lo, mid - 1)

\* largest r with r*r <= n
ISqrt(n) == SqrtSearch(n, 0, 46340)

RECURSIVE SumSeq(_)
SumSeq(s) == IF s = << >> THEN 0 ELSE Head(s) + SumSeq(Tail(s))

RECURSIVE MaxSeq(_)
MaxSeq(s) == IF Len(s) = 1 THEN s[1] ELSE Max(Head(s), MaxSeq(Tail(s)))

\* the sequence <<f[1], ..., f[n]>> of a function on 1..n
SeqOf(f, n) == [i \in 1..n |-> f[i]]

(***************************************************************************)
(* Sensor snapshots.                                                       *)
(***************************************************************************)
SensorKeys == {"gps", "ais", "radar", "weather", "tide", "current"}

\* radar['own_ship'] with no coordinates
NoOwnShip == [has |-> {}, latitude |-> 0, longitude |-> 0]

\* an empty dict {}
EmptyDict ==
    [none |-> FALSE, has |-> {}, latitude |-> 0, longitude |-> 0,
     speed |-> 0, course |-> 0, heading |-> 0, rot |-> 0, timestamp |-> 0,
     own_ship |-> NoOwnShip, targets |-> << >>]

\* the value None
NoneValue == [EmptyDict EXCEPT !.none = TRUE]

\* Python truthiness of sensor_data[k]: not None and not an empty dict
Truthy(d) == ~d.none /\ d.has # {}

\* a sensor dict with position, speed and course
Reading(pos, spd, crs) ==
    [EmptyDict EXCEPT !.has = {"latitude", "longitude", "speed", "course"},
                      !.latitude = pos[1], !.longitude = pos[2],
                      !.speed = spd, !.course = crs]

\* a radar dict whose own_ship carries a position
RadarReading(pos) ==
    [EmptyDict EXCEPT !.has = {"own_ship"},
                      !.own_ship = [has |-> {"latitude", "longitude"},
                                    latitude |-> pos[1], longitude |-> pos[2]]]

\* sensor_data: the keys present and the value under each key
Snapshot(keys, gps, ais, radar) ==
    [keys |-> keys,
     val  |-> [k \in SensorKeys |->
                 IF k \notin keys THEN NoneValue
                 ELSE IF k = "gps" THEN gps
                 ELSE IF k = "ais" THEN ais
                 ELSE IF k = "radar" THEN radar
                 ELSE EmptyDict]]


\* a target reading of ais['targets'] or radar['targets']
\* (cpa, distance in hundredths of a nautical mile, tcpa in hundredths of
\* a minute)
TargetReading(has, mmsi, pos, cpa, tcpa) ==
    [has |-> has, mmsi |-> mmsi, latitude |-> pos[1], longitude |-> pos[2],
     speed |-> 0, course |-> 0, cpa |-> cpa, tcpa |-> tcpa, distance |-> 0]

(***************************************************************************)
(* SensorFusionEngine (modules/sensor_fusion.py).                          *)
(* Its state is position_history, a sequence of [lat, lon, time].          *)
(***************************************************************************)
\* sensor_weights, in thousandths; sensors not in the table weigh 0.5
sensor_weights ==
    [k \in SensorKeys |->
        CASE k = "gps"     -> 950
          [] k = "ais"     -> 850
          [] k = "radar"   -> 800
          [] k = "weather" -> 750
          [] k = "tide"    -> 800
          [] k = "current" -> 750]

\* SensorFusionEngine.max_history
fusion_max_history == 50

\* the distance in metres between two positions
haversine_distance(lat1, lon1, lat2, lon2) ==
    ISqrt((lat2 - lat1) * (lat2 - lat1) + (lon2 - lon1) * (lon2 - lon1))

\* variant: without the 2x safety factor
is_position_outlier_no_margin(position_history, lat, lon, now) ==
    IF position_history = << >> THEN FALSE
    ELSE LET last      == position_history[Len(position_history)]
             distance  == haversine_distance(lat, lon, last.lat, last.lon)
             time_diff == now - last.time
         IN  IF time_diff > 0
             THEN 10 * distance > 257 * time_diff
             ELSE FALSE

\* distance > 25.7 m/s * time_diff * 2, with no history nothing is rejected
is_position_outlier(position_history, lat, lon, now) ==
    IF position_history = << >> THEN FALSE
    ELSE LET last      == position_history[Len(position_history)]
             distance  == haversine_distance(lat, lon, last.lat, last.lon)
             time_diff == now - last.time
         IN  IF time_diff > 0
             THEN 10 * distance > 257 * time_diff * 2
             ELSE FALSE

\* speeds are tenths of a knot: outside [0, 50] knots
is_speed_outlier(speed) == speed < 0 \/ speed > 500

\* positions is a sequence of <<lat, lon, weight>>
weighted_position_fusion(positions) ==
    IF positions = << >> THEN <<0, 0>>
    ELSE LET n == Len(positions)
             total_weight == SumSeq([i \in 1..n |-> positions[i][3]])
         IN  << SumSeq([i \in 1..n |-> positions[i][1] * positions[i][3]])
                    \div total_weight,
                SumSeq([i \in 1..n |-> positions[i][2] * positions[i][3]])
                    \div total_weight >>

\* values is a sequence of <<value, weight>>
weighted_value_fusion(values, default) ==
    IF values = << >> THEN default
    ELSE LET n == Len(values)
             total_weight == SumSeq([i \in 1..n |-> values[i][2]])
         IN  SumSeq([i \in 1..n |-> values[i][1] * values[i][2]])
                 \div total_weight

\* math.sin(math.radians(a)) of the angles the model feeds in, in thousandths
SinT(a) == CASE a = 0 -> 0 [] a = 45 -> 707 [] a = 90 -> 1000
             [] a = 135 -> 707 [] a = 180 -> 0 [] a = 225 -> -707
             [] a = 270 -> -1000 [] a = 315 -> -707 [] a = 360 -> 0

CosT(a) == SinT((a + 90) % 360)

\* what the double math.sin(math.radians(a)) has beyond SinT(a), in units of
\* 1e-17: sin(radians(180)) is 1.22e-16 and sin(radians(360)) is -2.45e-16,
\* not 0; the doubles for +-0.7071... differ in their last bit (1.1e-16)
SinR(a) == CASE a = 45 -> -11 [] a = 180 -> 12 [] a = 225 -> 11
             [] a = 315 -> -11 [] a = 360 -> -24 [] OTHER -> 0

\* likewise for math.cos(math.radians(a))
CosR(a) == CASE a = 90 -> 6 [] a = 135 -> 11 [] a = 225 -> -11
             [] a = 270 -> -18 [] a = 315 -> -22 [] OTHER -> 0

\* the direction of the vector (cos_sum, sin_sum), to the nearest of the
\* eight tabulated angles (exact when every input has the same angle);
\* atan2(0, 0) is 0
Atan2Deg(sin_sum, cos_sum) ==
    IF sin_sum = 0 /\ cos_sum = 0 THEN 0
    ELSE CHOOSE a \in {0, 45, 90, 135, 180, 225, 270, 315} :
            \A b \in {0, 45, 90, 135, 180, 225, 270, 315} :
                CosT(a) * cos_sum + SinT(a) * sin_sum
                    >= CosT(b) * cos_sum + SinT(b) * sin_sum

\* angle % 360 on doubles: angle is deg degrees (atan2 gives -180 < deg <=
\* 180) plus a rounding residue of sign tiny; a negative residue at 0 gives
\* 360 - 7e-15, which rounds to the double 360.0
FloatMod360(deg, tiny) == IF deg = 0 /\ tiny < 0 THEN 360 ELSE deg % 360

\* angles is a sequence of <<angle, weight>>
weighted_angle_fusion(angles, default) ==
    IF angles = << >> THEN default
    ELSE LET n == Len(angles)
             sin_sum == SumSeq([i \in 1..n |-> SinT(angles[i][1]) * angles[i][2]])
                            \div 1000
             cos_sum == SumSeq([i \in 1..n |-> CosT(angles[i][1]) * angles[i][2]])
                            \div 1000
             sin_res == SumSeq([i \in 1..n |-> SinR(angles[i][1]) * angles[i][2]])
             cos_res == SumSeq([i \in 1..n |-> CosR(angles[i][1]) * angles[i][2]])
             a == IF sin_sum = 0 /\ cos_sum = 0
                  THEN Atan2Deg(sin_res, cos_res)
                  ELSE Atan2Deg(sin_sum, cos_sum)
             deg == IF a > 180 THEN a - 360 ELSE a
             tiny == IF sin_sum = 0 /\ cos_sum > 0 THEN sin_res ELSE 0
         IN  FloatMod360(deg, tiny)

\* append, then drop the oldest entry when the cap is exceeded
update_position_history(position_history, lat, lon, now) ==
    LET h == Append(position_history, [lat |-> lat, lon |-> lon, time |-> now])
    IN  IF Len(h) > fusion_max_history THEN Tail(h) ELSE h

\* returns the fused VesselState and the new position_history
fuse_vessel_state(position_history, sensor_data, now) ==
    LET gps   == sensor_data.val["gps"]
        ais   == sensor_data.val["ais"]
        radar == sensor_data.val["radar"]
        useGps   == "gps" \in sensor_data.keys /\ Truthy(gps)
        useAis   == "ais" \in sensor_data.keys /\ Truthy(ais)
        useRadar == "radar" \in sensor_data.keys /\ Truthy(radar)
                        /\ "own_ship" \in radar.has
        own   == radar.own_ship
        hasPos(d) == "latitude" \in d.has /\ "longitude" \in d.has
        accept(d) == hasPos(d) /\ ~is_position_outlier(position_history,
                                        d.latitude, d.longitude, now)
        positions ==
            (IF useGps /\ accept(gps)
                THEN << <<gps.latitude, gps.longitude, sensor_weights["gps"]>> >>
                ELSE << >>)
            \o (IF useAis /\ accept(ais)
                THEN << <<ais.latitude, ais.longitude, sensor_weights["ais"]>> >>
                ELSE << >>)
            \o (IF useRadar /\ accept(own)
                THEN << <<own.latitude, own.longitude,
                          (sensor_weights["radar"] * 8) \div 10>> >>
                ELSE << >>)
        speeds ==
            (IF useGps /\ "speed" \in gps.has /\ ~is_speed_outlier(gps.speed)
                THEN << <<gps.speed, sensor_weights["gps"]>> >> ELSE << >>)
            \o (IF useAis /\ "speed" \in ais.has /\ ~is_speed_outlier(ais.speed)
                THEN << <<ais.speed, sensor_weights["ais"]>> >> ELSE << >>)
        courses ==
            (IF useGps /\ "course" \in gps.has
                THEN << <<gps.course, sensor_weights["gps"]>> >> ELSE << >>)
            \o (IF useAis /\ "course" \in ais.has
                THEN << <<ais.course, sensor_weights["ais"]>> >> ELSE << >>)
        headings ==
            IF useAis /\ "heading" \in ais.has
                THEN << <<ais.heading, sensor_weights["ais"]>> >> ELSE << >>
        rots ==
            IF useAis /\ "rot" \in ais.has
                THEN << <<ais.rot, sensor_weights["ais"]>> >> ELSE << >>
        fused        == weighted_position_fusion(positions)
        fused_course == weighted_angle_fusion(courses, 0)
    IN  [vessel_state |->
            [position     |-> fused,
             speed        |-> weighted_value_fusion(speeds, 0),
             course       |-> fused_course,
             heading      |-> weighted_angle_fusion(headings, fused_course),
             rate_of_turn |-> weighted_value_fusion(rots, 0)],
         position_history |->
            update_position_history(position_history, fused[1], fused[2], now)]

\* dict.get(key, default) on a target reading
Get(d, key, default) == IF key \in d.has THEN d[key] ELSE default

\* target_dict[target_id] = entry: a new key goes last, an existing key is
\* overwritten in place
DictPut(target_dict, entry) ==
    IF \E i \in 1..Len(target_dict) : target_dict[i].target_id = entry.target_id
    THEN [i \in 1..Len(target_dict) |->
            IF target_dict[i].target_id = entry.target_id
            THEN entry ELSE target_dict[i]]
    ELSE Append(target_dict, entry)

\* variant: no radar target is ever correlated
correlate_target_never(radar_target, existing_targets) == <<"none", 0>>

\* the key of the first AIS entry less than 500 m from the radar target,
\* <<"none", 0>> when there is none
correlate_target(radar_target, existing_targets) ==
    IF ~("latitude" \in radar_target.has /\ "longitude" \in radar_target.has)
    THEN <<"none", 0>>
    ELSE LET near(i) ==
                 /\ existing_targets[i].source = "ais"
                 /\ "latitude" \in existing_targets[i].data.has
                 /\ "longitude" \in existing_targets[i].data.has
                 /\ haversine_distance(radar_target.latitude,
                        radar_target.longitude,
                        existing_targets[i].data.latitude,
                        existing_targets[i].data.longitude) < 500
             hits == {i \in 1..Len(existing_targets) : near(i)}
         IN  IF hits = {} THEN <<"none", 0>>
             ELSE existing_targets[CHOOSE i \in hits :
                                     \A j \in hits : i <= j].target_id

RECURSIVE AisTargets(_, _)
\* the loop over sensor_data['ais']['targets']; len(targets) is 0 throughout
AisTargets(readings, target_dict) ==
    IF readings = << >> THEN target_dict
    ELSE LET t  == Head(readings)
             id == IF "mmsi" \in t.has THEN <<"mmsi", t.mmsi>> ELSE <<"ais", 0>>
         IN  AisTargets(Tail(readings),
                 DictPut(target_dict,
                     [target_id |-> id, source |-> "ais", data |-> t]))

RECURSIVE RadarTargets(_, _)
\* the loop over sensor_data['radar']['targets']
RadarTargets(readings, target_dict) ==
    IF readings = << >> THEN target_dict
    ELSE LET t  == Head(readings)
             id == correlate_target(t, target_dict)
         IN  RadarTargets(Tail(readings),
                 IF id # <<"none", 0>> THEN target_dict
                 ELSE DictPut(target_dict,
                         [target_id |-> <<"radar", Len(target_dict)>>,
                          source |-> "radar", data |-> t]))

\* one Target per key of target_dict
\* (absent cpa, tcpa, distance default to 999.9)
fuse_targets(sensor_data) ==
    LET ais   == sensor_data.val["ais"]
        radar == sensor_data.val["radar"]
        d1 == IF "ais" \in sensor_data.keys /\ "targets" \in ais.has
              THEN AisTargets(ais.targets, << >>) ELSE << >>
        d2 == IF "radar" \in sensor_data.keys /\ "targets" \in radar.has
              THEN RadarTargets(radar.targets, d1) ELSE d1
    IN  [i \in 1..Len(d2) |->
            [target_id |-> d2[i].target_id,
             position  |-> <<Get(d2[i].data, "latitude", 0),
                             Get(d2[i].data, "longitude", 0)>>,
             speed     |-> Get(d2[i].data, "speed", 0),
             course    |-> Get(d2[i].data, "course", 0),
             cpa       |-> Get(d2[i].data, "cpa", 99990),
             tcpa      |-> Get(d2[i].data, "tcpa", 99990),
             distance  |-> Get(d2[i].data, "distance", 99990)]]

\* "'targets' in sensor_data[k]" raises TypeError when sensor_data[k] is None
fuse_targets_raises(sensor_data) ==
    \/ "ais" \in sensor_data.keys /\ sensor_data.val["ais"].none
    \/ "radar" \in sensor_data.keys /\ sensor_data.val["radar"].none

\* a sensor that is None gets no score; the others min(1.0, len(data) / 10.0)
calculate_quality_scores(sensor_data) ==
    [k \in {x \in sensor_data.keys : ~sensor_data.val[x].none} |->
        Min(One, (Cardinality(sensor_data.val[k].has) * One) \div 10)]

calculate_fusion_confidence(quality_scores) ==
    IF DOMAIN quality_scores = {} THEN 0
    ELSE LET RECURSIVE Sum(_, _)
             Sum(S, f) == IF S = {} THEN 0
                          ELSE LET k == CHOOSE x \in S : TRUE
                               IN  f[k] + Sum(S \ {k}, f)
             ks == DOMAIN quality_scores
             weighted_sum == Sum(ks, [k \in ks |->
                                 quality_scores[k] * sensor_weights[k]])
             total_weight == Sum(ks, [k \in ks |-> sensor_weights[k]])
         IN  IF total_weight = 0 THEN 0 ELSE weighted_sum \div total_weight

\* SensorFusionEngine.fuse: the FusedData, or the exception, and the new
\* position_history (written by _fuse_vessel_state before _fuse_targets runs)
fuse(position_history, sensor_data, now) ==
    LET vs == fuse_vessel_state(position_history, sensor_data, now)
        quality_scores == calculate_quality_scores(sensor_data)
    IN  [raised |-> fuse_targets_raises(sensor_data),
         position_history |-> vs.position_history,
         fused_data |->
            [vessel_state      |-> vs.vessel_state,
             targets           |-> IF fuse_targets_raises(sensor_data)
                                   THEN << >> ELSE fuse_targets(sensor_data),
             quality_scores    |-> quality_scores,
             fusion_confidence |-> calculate_fusion_confidence(quality_scores)]]

(***************************************************************************)
(* SpoofingDetector (modules/spoofing_detector.py).                        *)
(* Its state: previous_gps_position and previous_ais_position (<< >> is    *)
(* None, otherwise <<lat, lon>>), last_update_time (<< >> is None,         *)
(* otherwise <<time>>) and the incident log spoofing_incidents.            *)
(***************************************************************************)
\* thresholds['position_jump'], metres
position_jump == 1000

\* thresholds['speed_impossibility'], tenths of a knot
speed_impossibility == 600

\* thresholds['multi_sensor_mismatch'], metres
multi_sensor_mismatch == 500

\* thresholds['time_inconsistency'], seconds
time_inconsistency == 60

\* cap of spoofing_incidents
max_incidents == 100

\* a freshly constructed SpoofingDetector
NewSpoofingDetector ==
    [previous_gps_position |-> << >>, previous_ais_position |-> << >>,
     last_update_time |-> << >>, spoofing_incidents |-> << >>]

\* a SpoofingAlert; alert_id is <<prefix, n>>, n standing for the random part
SpoofingAlert(prefix, type, confidence, sensors, likely) ==
    [alert_id |-> <<prefix, 0>>, spoofing_type |-> type,
     confidence |-> confidence, affected_sensors |-> sensors,
     likely_spoofed |-> likely]

\* variant: the position-jump check ignores the elapsed time
gps_movement_alerts_any_time(distance, time_diff) ==
    IF distance > position_jump
    THEN << SpoofingAlert("gps_spoof", "gps_spoofing",
                Min(One, (distance * One) \div 5000), <<"gps">>, "") >>
    ELSE IF distance * 97192 > (speed_impossibility \div 10) * 50000 * time_diff
    THEN << SpoofingAlert("gps_speed", "gps_spoofing",
                Min(One, (distance * 97192) \div (time_diff * 5000)),
                <<"gps">>, "") >>
    ELSE << >>

\* variant: the two checks are independent ifs
gps_movement_alerts_both(distance, time_diff) ==
    (IF distance > position_jump /\ time_diff < 10
     THEN << SpoofingAlert("gps_spoof", "gps_spoofing",
                 Min(One, (distance * One) \div 5000), <<"gps">>, "") >>
     ELSE << >>)
    \o (IF distance * 97192 > (speed_impossibility \div 10) * 50000 * time_diff
        THEN << SpoofingAlert("gps_speed", "gps_spoofing",
                    Min(One, (distance * 97192) \div (time_diff * 5000)),
                    <<"gps">>, "") >>
        ELSE << >>)

\* the position-jump alert when distance > 1000 m and time_diff < 10 s,
\* else the impossible-speed alert when the implied speed
\* (distance / time_diff * 1.94384) exceeds 60 knots
gps_movement_alerts(distance, time_diff) ==
    IF distance > position_jump /\ time_diff < 10
    THEN << SpoofingAlert("gps_spoof", "gps_spoofing",
                Min(One, (distance * One) \div 5000), <<"gps">>, "") >>
    ELSE IF distance * 97192 > (speed_impossibility \div 10) * 50000 * time_diff
    THEN << SpoofingAlert("gps_speed", "gps_spoofing",
                Min(One, (distance * 97192) \div (time_diff * 5000)),
                <<"gps">>, "") >>
    ELSE << >>

\* variant: the trackers are written only when no alert fired
detect_gps_spoofing_quiet_update(sd, raw_sensor_data, now) ==
    LET gps == raw_sensor_data.val["gps"]
    IN  IF ~("gps" \in raw_sensor_data.keys /\ Truthy(gps))
        THEN [alerts |-> << >>, sd |-> sd]
        ELSE IF ~("latitude" \in gps.has /\ "longitude" \in gps.has)
        THEN [alerts |-> << >>, sd |-> sd]
        ELSE
          LET alerts ==
                IF sd.previous_gps_position # << >> /\ sd.last_update_time # << >>
                THEN LET distance == haversine_distance(
                             sd.previous_gps_position[1],
                             sd.previous_gps_position[2],
                             gps.latitude, gps.longitude)
                         time_diff == now - sd.last_update_time[1]
                     IN  IF time_diff > 0
                         THEN gps_movement_alerts(distance, time_diff)
                         ELSE << >>
                ELSE << >>
          IN  [alerts |-> alerts,
               sd |-> IF alerts # << >> THEN sd
                      ELSE [sd EXCEPT
                              !.previous_gps_position =
                                  <<gps.latitude, gps.longitude>>,
                              !.last_update_time = <<now>>]]

\* returns the alerts and the detector with its GPS trackers updated
detect_gps_spoofing(sd, raw_sensor_data, now) ==
    LET gps == raw_sensor_data.val["gps"]
    IN  IF ~("gps" \in raw_sensor_data.keys /\ Truthy(gps))
        THEN [alerts |-> << >>, sd |-> sd]
        ELSE IF ~("latitude" \in gps.has /\ "longitude" \in gps.has)
        THEN [alerts |-> << >>, sd |-> sd]
        ELSE
          [alerts |->
             IF sd.previous_gps_position # << >> /\ sd.last_update_time # << >>
             THEN LET distance == haversine_distance(
                          sd.previous_gps_position[1],
                          sd.previous_gps_position[2],
                          gps.latitude, gps.longitude)
                      time_diff == now - sd.last_update_time[1]
                  IN  IF time_diff > 0
                      THEN gps_movement_alerts(distance, time_diff)
                      ELSE << >>
             ELSE << >>,
           sd |-> [sd EXCEPT
                     !.previous_gps_position = <<gps.latitude, gps.longitude>>,
                     !.last_update_time = <<now>>]]

\* returns the alerts and the detector with its AIS tracker updated
detect_ais_spoofing(sd, raw_sensor_data) ==
    LET ais == raw_sensor_data.val["ais"]
    IN  IF ~("ais" \in raw_sensor_data.keys /\ Truthy(ais))
        THEN [alerts |-> << >>, sd |-> sd]
        ELSE
          LET speedAlert ==
                IF "speed" \in ais.has /\ ais.speed > speed_impossibility
                THEN << SpoofingAlert("ais_spoof", "ais_spoofing",
                            Min(One, ais.speed), <<"ais">>, "") >>
                ELSE << >>
              hasPos == "latitude" \in ais.has /\ "longitude" \in ais.has
              jumpAlert ==
                IF hasPos /\ sd.previous_ais_position # << >>
                THEN LET distance == haversine_distance(
                             sd.previous_ais_position[1],
                             sd.previous_ais_position[2],
                             ais.latitude, ais.longitude)
                     IN  IF distance > position_jump
                         THEN << SpoofingAlert("ais_jump", "ais_spoofing",
                                     Min(One, (distance * One) \div 5000),
                                     <<"ais">>, "") >>
                         ELSE << >>
                ELSE << >>
          IN  [alerts |-> speedAlert \o jumpAlert,
               sd |-> IF hasPos
                      THEN [sd EXCEPT !.previous_ais_position =
                                        <<ais.latitude, ais.longitude>>]
                      ELSE sd]

\* the positions dict of _detect_multi_sensor_spoofing, as a sequence of
\* <<sensor, lat, lon>> in insertion order gps, ais, radar
sensor_positions(raw_sensor_data) ==
    LET gps   == raw_sensor_data.val["gps"]
        ais   == raw_sensor_data.val["ais"]
        radar == raw_sensor_data.val["radar"]
        own   == radar.own_ship
        hasPos(d) == "latitude" \in d.has /\ "longitude" \in d.has
    IN  (IF "gps" \in raw_sensor_data.keys /\ Truthy(gps) /\ hasPos(gps)
            THEN << <<"gps", gps.latitude, gps.longitude>> >> ELSE << >>)
        \o (IF "ais" \in raw_sensor_data.keys /\ Truthy(ais) /\ hasPos(ais)
            THEN << <<"ais", ais.latitude, ais.longitude>> >> ELSE << >>)
        \o (IF "radar" \in raw_sensor_data.keys /\ Truthy(radar)
                /\ "own_ship" \in radar.has /\ hasPos(own)
            THEN << <<"radar", own.latitude, own.longitude>> >> ELSE << >>)

\* distance between the i-th and the j-th entry of positions
PairDistance(positions, i, j) ==
    haversine_distance(positions[i][2], positions[i][3],
                       positions[j][2], positions[j][3])

\* variant: the first sensor of the dict is named, whatever the distances
identify_spoofed_sensor_first(positions) ==
    IF Len(positions) < 3 THEN "GPS" ELSE positions[1][1]

\* "GPS" with fewer than 3 positions, else the first sensor (in insertion
\* order) with the highest sum of pairwise distances above 500 m
identify_spoofed_sensor(positions) ==
    IF Len(positions) < 3 THEN "GPS"
    ELSE LET n == Len(positions)
             score(i) == SumSeq([j \in 1..n |->
                            IF j # i /\ PairDistance(positions, i, j) > 500
                            THEN PairDistance(positions, i, j) ELSE 0])
             best == CHOOSE i \in 1..n :
                        /\ \A j \in 1..n : score(i) >= score(j)
                        /\ \A j \in 1..(i - 1) : score(j) < score(i)
         IN  positions[best][1]

\* variant: only the first two positions are compared
detect_multi_sensor_spoofing_first_pair(raw_sensor_data) ==
    LET positions == sensor_positions(raw_sensor_data)
        n == Len(positions)
    IN  IF n >= 2 /\ PairDistance(positions, 1, 2) > multi_sensor_mismatch
        THEN << SpoofingAlert("multi_spoof", "multi_sensor_spoofing",
                    Min(One, (PairDistance(positions, 1, 2) * One) \div 2000),
                    [i \in 1..n |-> positions[i][1]],
                    identify_spoofed_sensor(positions)) >>
        ELSE << >>

\* one alert when at least two positions are known and some pair is more
\* than 500 m apart; confidence min(1, max_mismatch / 2000)
detect_multi_sensor_spoofing(raw_sensor_data) ==
    LET positions == sensor_positions(raw_sensor_data)
        n == Len(positions)
        pairs == {p \in (1..n) \X (1..n) : p[1] < p[2]}
        dist(p) == PairDistance(positions, p[1], p[2])
    IN  IF n >= 2 /\ \E p \in pairs : dist(p) > multi_sensor_mismatch
        THEN LET max_mismatch ==
                     CHOOSE d \in {dist(p) : p \in pairs} :
                         \A p \in pairs : dist(p) <= d
             IN  << SpoofingAlert("multi_spoof", "multi_sensor_spoofing",
                        Min(One, (max_mismatch * One) \div 2000),
                        [i \in 1..n |-> positions[i][1]],
                        identify_spoofed_sensor(positions)) >>
        ELSE << >>

\* a GPS timestamp more than 60 s away from the processing time
detect_time_manipulation(raw_sensor_data, now) ==
    LET gps == raw_sensor_data.val["gps"]
    IN  IF "gps" \in raw_sensor_data.keys /\ Truthy(gps)
            /\ "timestamp" \in gps.has
            /\ Abs(now - gps.timestamp) > time_inconsistency
        THEN << SpoofingAlert("time_spoof", "gps_spoofing",
                    Min(One, (Abs(now - gps.timestamp) * One) \div 300),
                    <<"gps">>, "") >>
        ELSE << >>

\* append one incident per batch with alerts, keep the newest 100
log_spoofing_incident(spoofing_incidents, alerts, now) ==
    LET incident ==
            [timestamp |-> now, alert_count |-> Len(alerts),
             alert_types |-> [i \in 1..Len(alerts) |-> alerts[i].spoofing_type],
             max_confidence |->
                MaxSeq([i \in 1..Len(alerts) |-> alerts[i].confidence])]
        h == Append(spoofing_incidents, incident)
    IN  IF Len(h) > max_incidents THEN Tail(h) ELSE h

\* SpoofingDetector.detect: the alerts of the batch (numbered in order, the
\* number standing for the random part of the id) and the new detector state
spoofing_detect(sd, raw_sensor_data, now) ==
    LET g == detect_gps_spoofing(sd, raw_sensor_data, now)
        a == detect_ais_spoofing(g.sd, raw_sensor_data)
        found == g.alerts \o a.alerts
                   \o detect_multi_sensor_spoofing(raw_sensor_data)
                   \o detect_time_manipulation(raw_sensor_data, now)
        alerts == [i \in 1..Len(found) |->
                     [found[i] EXCEPT !.alert_id = <<found[i].alert_id[1], i>>]]
    IN  [alerts |-> alerts,
         sd |-> IF alerts # << >>
                THEN [a.sd EXCEPT !.spoofing_incidents =
                        log_spoofing_incident(a.sd.spoofing_incidents, alerts, now)]
                ELSE a.sd]

(***************************************************************************)
(* AnomalyDetector (modules/anomaly_detector.py).                          *)
(* Its state: speed_history, course_history and position_history (a        *)
(* sequence of [lat, lon, time]).                                          *)
(***************************************************************************)
\* AnomalyDetector.max_history
anomaly_max_history == 30

\* thresholds['speed_deviation'], tenths of a knot
speed_deviation_threshold == 50

\* thresholds['collision_risk_distance'], hundredths of a nautical mile
collision_risk_distance == 200

\* thresholds['collision_risk_tcpa'], hundredths of a minute
collision_risk_tcpa == 1000

\* thresholds['sudden_maneuver_rot'], degrees per minute
sudden_maneuver_rot == 15

\* a freshly constructed AnomalyDetector
NewAnomalyDetector ==
    [speed_history |-> << >>, course_history |-> << >>,
     position_history |-> << >>]

\* an Anomaly; anomaly_id is <<prefix, n>>, n standing for the random part
Anomaly(prefix, type, severity, sensors) ==
    [anomaly_id |-> <<prefix, 0>>, anomaly_type |-> type,
     severity |-> severity, affected_sensors |-> sensors]

\* variant: the newest entry is dropped
Capped_newest_dropped(h, x) ==
    LET a == Append(h, x)
    IN  IF Len(a) > anomaly_max_history THEN SubSeq(a, 1, Len(a) - 1) ELSE a

\* append to a history, then drop the oldest entry beyond max_history
Capped(h, x) ==
    LET a == Append(h, x)
    IN  IF Len(a) > anomaly_max_history THEN Tail(a) ELSE a

update_history(ad, vessel_state, now) ==
    [speed_history    |-> Capped(ad.speed_history, vessel_state.speed),
     course_history   |-> Capped(ad.course_history, vessel_state.course),
     position_history |-> Capped(ad.position_history,
                             [lat |-> vessel_state.position[1],
                              lon |-> vessel_state.position[2],
                              time |-> now])]

\* linear extrapolation, 30 s ahead, of the last two entries of
\* position_history
predict_position(position_history) ==
    LET n == Len(position_history)
    IN  IF n < 2 THEN <<position_history[n].lat, position_history[n].lon>>
        ELSE LET p1 == position_history[n - 1]
                 p2 == position_history[n]
                 time_diff == p2.time - p1.time
             IN  IF time_diff = 0 THEN <<p2.lat, p2.lon>>
                 ELSE << p2.lat + ((p2.lat - p1.lat) * 30) \div time_diff,
                         p2.lon + ((p2.lon - p1.lon) * 30) \div time_diff >>

detect_trajectory_deviation(ad, vessel_state) ==
    IF Len(ad.position_history) < 3 THEN << >>
    ELSE LET expected  == predict_position(ad.position_history)
             deviation == haversine_distance(expected[1], expected[2],
                              vessel_state.position[1], vessel_state.position[2])
         IN  IF deviation > 500
             THEN << Anomaly("traj_dev", "trajectory_deviation",
                         Min(One, (deviation * One) \div 2000),
                         <<"gps", "ais">>) >>
             ELSE << >>

\* |current - mean(speed_history)| > 5 knots; severity min(1, deviation / 20)
detect_speed_anomaly(ad, vessel_state) ==
    IF Len(ad.speed_history) < 2 THEN << >>
    ELSE LET n   == Len(ad.speed_history)
             dev == Abs(vessel_state.speed * n - SumSeq(ad.speed_history))
         IN  IF dev > speed_deviation_threshold * n
             THEN << Anomaly("speed_anom", "speed_anomaly",
                         Min(One, (dev * 5) \div n), <<"gps", "engine">>) >>
             ELSE << >>

\* "k in gps" / "k in ais" raises TypeError on None
detect_sensor_mismatch_raises(raw_sensor_data) ==
    LET gps == raw_sensor_data.val["gps"]
        ais == raw_sensor_data.val["ais"]
    IN  /\ "gps" \in raw_sensor_data.keys
        /\ "ais" \in raw_sensor_data.keys
        /\ \/ gps.none
           \/ /\ "latitude" \in gps.has
              /\ "longitude" \in gps.has
              /\ ais.none

detect_sensor_mismatch(raw_sensor_data) ==
    LET gps == raw_sensor_data.val["gps"]
        ais == raw_sensor_data.val["ais"]
    IN  IF /\ "gps" \in raw_sensor_data.keys
           /\ "ais" \in raw_sensor_data.keys
           /\ {"latitude", "longitude"} \subseteq gps.has
           /\ {"latitude", "longitude"} \subseteq ais.has
        THEN LET distance == haversine_distance(gps.latitude, gps.longitude,
                                 ais.latitude, ais.longitude)
             IN  IF distance > 200
                 THEN << Anomaly("sensor_mismatch", "sensor_mismatch",
                             Min(One, (distance * One) \div 1000),
                             <<"gps", "ais">>) >>
                 ELSE << >>
        ELSE << >>

RECURSIVE detect_collision_risk(_)
\* severity = ((1 - cpa / 2.0) + (1 - tcpa / 10.0)) / 2
detect_collision_risk(targets) ==
    IF targets = << >> THEN << >>
    ELSE LET target == Head(targets)
         IN  (IF /\ target.cpa < collision_risk_distance
                 /\ target.tcpa < collision_risk_tcpa
                 /\ target.tcpa > 0
              THEN << Anomaly("collision", "collision_risk",
                          ((One - (target.cpa * One) \div collision_risk_distance)
                           + (One - (target.tcpa * One) \div collision_risk_tcpa))
                              \div 2,
                          <<"ais", "radar">>) >>
              ELSE << >>)
             \o detect_collision_risk(Tail(targets))

detect_sudden_maneuver(vessel_state) ==
    IF Abs(vessel_state.rate_of_turn) > sudden_maneuver_rot
    THEN << Anomaly("maneuver", "sudden_maneuver",
                Min(One, (Abs(vessel_state.rate_of_turn) * One) \div 30),
                <<"ais", "gps">>) >>
    ELSE << >>

\* variant: only an absent key counts, an empty reading does not
detect_sensor_degradation_absent_only(raw_sensor_data) ==
    LET one(k) == IF k \notin raw_sensor_data.keys
                  THEN << Anomaly("sensor_deg", "sensor_degradation",
                              800, <<k>>) >>
                  ELSE << >>
    IN  one("gps") \o one("ais") \o one("radar")

\* variant: radar is not among the critical sensors
detect_sensor_degradation_no_radar(raw_sensor_data) ==
    LET missing(k) == k \notin raw_sensor_data.keys
                         \/ ~Truthy(raw_sensor_data.val[k])
        one(k) == IF missing(k)
                  THEN << Anomaly("sensor_deg", "sensor_degradation",
                              800, <<k>>) >>
                  ELSE << >>
    IN  one("gps") \o one("ais")

\* one anomaly of severity 0.8 per critical sensor that is absent, None or {}
detect_sensor_degradation(raw_sensor_data) ==
    LET missing(k) == k \notin raw_sensor_data.keys
                         \/ ~Truthy(raw_sensor_data.val[k])
        one(k) == IF missing(k)
                  THEN << Anomaly("sensor_deg", "sensor_degradation",
                              800, <<k>>) >>
                  ELSE << >>
    IN  one("gps") \o one("ais") \o one("radar")

\* variant: the checks run on the histories as they were before the call
anomaly_detect_checks_first(ad, fused_data, raw_sensor_data, now) ==
    LET ad2   == update_history(ad, fused_data.vessel_state, now)
        found == detect_trajectory_deviation(ad, fused_data.vessel_state)
                   \o detect_speed_anomaly(ad, fused_data.vessel_state)
                   \o detect_sensor_mismatch(raw_sensor_data)
                   \o detect_collision_risk(fused_data.targets)
                   \o detect_sudden_maneuver(fused_data.vessel_state)
                   \o detect_sensor_degradation(raw_sensor_data)
    IN  [raised |-> detect_sensor_mismatch_raises(raw_sensor_data),
         anomalies |->
            IF detect_sensor_mismatch_raises(raw_sensor_data) THEN << >>
            ELSE [i \in 1..Len(found) |->
                    [found[i] EXCEPT !.anomaly_id = <<found[i].anomaly_id[1], i>>]],
         ad |-> ad2]

\* AnomalyDetector.detect: the anomalies (numbered in order), or the
\* exception, and the new detector state (the histories are written first)
anomaly_detect(ad, fused_data, raw_sensor_data, now) ==
    LET ad2   == update_history(ad, fused_data.vessel_state, now)
        found == detect_trajectory_deviation(ad2, fused_data.vessel_state)
                   \o detect_speed_anomaly(ad2, fused_data.vessel_state)
                   \o detect_sensor_mismatch(raw_sensor_data)
                   \o detect_collision_risk(fused_data.targets)
                   \o detect_sudden_maneuver(fused_data.vessel_state)
                   \o detect_sensor_degradation(raw_sensor_data)
    IN  [raised |-> detect_sensor_mismatch_raises(raw_sensor_data),
         anomalies |->
            IF detect_sensor_mismatch_raises(raw_sensor_data) THEN << >>
            ELSE [i \in 1..Len(found) |->
                    [found[i] EXCEPT !.anomaly_id = <<found[i].anomaly_id[1], i>>]],
         ad |-> ad2]

(***************************************************************************)
(* UncertaintyModeler (modules/uncertainty_modeler.py); it has no state.   *)
(* An Uncertainty is [std_deviation, reliability], both in thousandths.    *)
(***************************************************************************)
Parameters ==
    {"position", "speed", "course", "heading", "targets", "wind",
     "current", "tide"}

\* sqrt(1 / sum(1 / sigma^2)) for standard deviations given in thousandths
PooledStdDev(sigmas) ==
    LET inv(x) == (100000 \div x) * (100000 \div x)
        total  == SumSeq([i \in 1..Len(sigmas) |-> inv(sigmas[i])])
    IN  1000000 \div ISqrt(total * 100)

calculate_position_uncertainty(raw_sensor_data) ==
    LET on(k) == k \in raw_sensor_data.keys /\ Truthy(raw_sensor_data.val[k])
        measurements ==
            (IF on("gps") THEN <<5000>> ELSE << >>)
            \o (IF on("ais") THEN <<10000>> ELSE << >>)
            \o (IF on("radar") THEN <<50000>> ELSE << >>)
        n == Len(measurements)
    IN  [std_deviation |-> IF n = 0 THEN 100000
                           ELSE IF n = 1 THEN measurements[1]
                           ELSE PooledStdDev(measurements),
         reliability |-> (Min(3 * One, n * One) * 900) \div (3 * One)]

\* speed and course share one pattern: the sensors that report the field,
\* the fixed standard deviations of gps and ais, and the default
calculate_field_uncertainty(raw_sensor_data, field, gpsSigma, aisSigma, dflt) ==
    LET on(k) == k \in raw_sensor_data.keys /\ Truthy(raw_sensor_data.val[k])
                    /\ field \in raw_sensor_data.val[k].has
        measurements ==
            (IF on("gps") THEN <<gpsSigma>> ELSE << >>)
            \o (IF on("ais") THEN <<aisSigma>> ELSE << >>)
        n == Len(measurements)
    IN  [std_deviation |-> IF n = 0 THEN dflt
                           ELSE IF n = 1 THEN measurements[1]
                           ELSE PooledStdDev(measurements),
         reliability |-> IF n = 0 THEN 300 ELSE IF n = 1 THEN 700 ELSE 900]

calculate_speed_uncertainty(raw_sensor_data) ==
    calculate_field_uncertainty(raw_sensor_data, "speed", 100, 500, 2000)

calculate_course_uncertainty(raw_sensor_data) ==
    calculate_field_uncertainty(raw_sensor_data, "course", 2000, 5000, 10000)

calculate_heading_uncertainty(raw_sensor_data) ==
    IF "ais" \in raw_sensor_data.keys /\ Truthy(raw_sensor_data.val["ais"])
    THEN IF "heading" \in raw_sensor_data.val["ais"].has
         THEN [std_deviation |-> 5000, reliability |-> 800]
         ELSE [std_deviation |-> 10000, reliability |-> 500]
    ELSE [std_deviation |-> 15000, reliability |-> 300]

\* sigma = sqrt(number of targets), reliability 0.7; with no target 0 and 1.0
calculate_target_uncertainty(fused_data) ==
    IF fused_data.targets = << >>
    THEN [std_deviation |-> 0, reliability |-> One]
    ELSE [std_deviation |-> ISqrt(Len(fused_data.targets) * 1000000),
          reliability |-> 700]

calculate_environmental_uncertainty ==
    [p \in {"wind", "current", "tide"} |->
        CASE p = "wind"    -> [std_deviation |-> 2000, reliability |-> 700]
          [] p = "current" -> [std_deviation |-> 500, reliability |-> 600]
          [] p = "tide"    -> [std_deviation |-> 100, reliability |-> 800]]

\* "word in anomaly_type.value" for the seven values of AnomalyType
TypeNameContains(type, word) ==
    CASE word = "position" -> FALSE
      [] word = "speed"    -> type = "speed_anomaly"
      [] word = "sensor"   -> type \in {"sensor_mismatch", "sensor_degradation"}

RECURSIVE adjust_loop(_, _, _)
\* the loop of _adjust_for_anomalies over the anomalies, in order
adjust_loop(uncertainties, anomalies, impact_factor) ==
    IF anomalies = << >> THEN uncertainties
    ELSE LET a == Head(anomalies)
             hit(p) == TypeNameContains(a.anomaly_type, p)
             u1 == [p \in DOMAIN uncertainties |->
                      IF p \in {"position", "speed"} /\ hit(p)
                      THEN [std_deviation |->
                               (uncertainties[p].std_deviation * impact_factor)
                                   \div One,
                            reliability |->
                               (uncertainties[p].reliability
                                   * (One - (a.severity * 3) \div 10)) \div One]
                      ELSE uncertainties[p]]
             u2 == [p \in DOMAIN u1 |->
                      IF hit("sensor")
                      THEN [u1[p] EXCEPT !.reliability =
                              (u1[p].reliability
                                  * (One - (a.severity * 2) \div 10)) \div One]
                      ELSE u1[p]]
         IN  adjust_loop(u2, Tail(anomalies), impact_factor)

\* variant: only the first anomaly takes effect
adjust_for_anomalies_first_only(uncertainties, anomalies) ==
    IF anomalies = << >> THEN uncertainties
    ELSE adjust_loop(uncertainties, << Head(anomalies) >>,
             One + MaxSeq([i \in 1..Len(anomalies) |-> anomalies[i].severity]))

\* impact_factor = 1 + max severity, then the loop; nothing without anomalies
adjust_for_anomalies(uncertainties, anomalies) ==
    IF anomalies = << >> THEN uncertainties
    ELSE adjust_loop(uncertainties, anomalies,
             One + MaxSeq([i \in 1..Len(anomalies) |-> anomalies[i].severity]))

\* UncertaintyModeler.calculate
uncertainty_calculate(fused_data, raw_sensor_data, anomalies) ==
    LET env  == calculate_environmental_uncertainty
        base == [p \in Parameters |->
                   CASE p = "position" ->
                          calculate_position_uncertainty(raw_sensor_data)
                     [] p = "speed" ->
                          calculate_speed_uncertainty(raw_sensor_data)
                     [] p = "course" ->
                          calculate_course_uncertainty(raw_sensor_data)
                     [] p = "heading" ->
                          calculate_heading_uncertainty(raw_sensor_data)
                     [] p = "targets" ->
                          calculate_target_uncertainty(fused_data)
                     [] OTHER -> env[p]]
    IN  adjust_for_anomalies(base, anomalies)

\* variant: the thresholds are exclusive
anomaly_to_alert_level_exclusive(severity) ==
    IF severity > 800 THEN "critical"
    ELSE IF severity > 500 THEN "warning"
    ELSE "info"

(***************************************************************************)
(* Data model (models/data_models.py) and the orchestrator's pure parts    *)
(* (situation_awareness_layer.py).                                         *)
(***************************************************************************)
\* Anomaly.to_alert_level
anomaly_to_alert_level(severity) ==
    IF severity >= 800 THEN "critical"
    ELSE IF severity >= 500 THEN "warning"
    ELSE "info"

\* SpoofingAlert.to_alert_level
spoofing_to_alert_level(confidence) ==
    IF confidence >= 700 THEN "emergency"
    ELSE IF confidence >= 500 THEN "critical"
    ELSE "warning"

\* level_priority of _generate_alerts
level_priority(level) ==
    CASE level = "emergency" -> 4
      [] level = "critical"  -> 3
      [] level = "warning"   -> 2
      [] level = "info"      -> 1
      [] OTHER               -> 0

\* severities and confidences are sequences of thousandths, reliabilities
\* the reliability of every computed uncertainty
overall_confidence_of(fusion_confidence, severities, confidences, reliabilities) ==
    LET c0 == fusion_confidence
        c1 == IF severities # << >>
              THEN LET max_severity == MaxSeq(severities)
                       avg_severity == SumSeq(severities) \div Len(severities)
                       anomaly_penalty ==
                           (max_severity * 3 + avg_severity * 2) \div 20
                   IN  (c0 * (One - anomaly_penalty)) \div One
              ELSE c0
        c2 == IF confidences # << >>
              THEN (c1 * (One - MaxSeq(confidences) \div 2)) \div One
              ELSE c1
        c3 == IF reliabilities # << >>
              THEN (c2 + SumSeq(reliabilities) \div Len(reliabilities)) \div 2
              ELSE c2
    IN  Max(0, Min(One, c3))

\* the reliabilities of a dict of uncertainties, in a fixed order
ReliabilitiesOf(uncertainties) ==
    LET RECURSIVE List(_)
        List(S) == IF S = {} THEN << >>
                   ELSE LET p == CHOOSE x \in S : TRUE
                        IN  <<uncertainties[p].reliability>> \o List(S \ {p})
    IN  List(DOMAIN uncertainties)

calculate_overall_confidence(fused_data, uncertainties, anomalies, spoofing_alerts) ==
    overall_confidence_of(
        fused_data.fusion_confidence,
        [i \in 1..Len(anomalies) |-> anomalies[i].severity],
        [i \in 1..Len(spoofing_alerts) |-> spoofing_alerts[i].confidence],
        ReliabilitiesOf(uncertainties))

RECURSIVE InsertByPriority_before_equals(_, _)
\* variant: an alert goes in front of the alerts of its own priority
InsertByPriority_before_equals(sorted, a) ==
    IF sorted = << >> THEN <<a>>
    ELSE IF level_priority(Head(sorted).level) > level_priority(a.level)
    THEN <<Head(sorted)>> \o InsertByPriority_before_equals(Tail(sorted), a)
    ELSE <<a>> \o sorted

RECURSIVE InsertByPriority(_, _)
\* place alert a behind every alert of the sorted list whose priority is at
\* least its own: list.sort(key=level_priority, reverse=True) is stable
InsertByPriority(sorted, a) ==
    IF sorted = << >> THEN <<a>>
    ELSE IF level_priority(Head(sorted).level) >= level_priority(a.level)
    THEN <<Head(sorted)>> \o InsertByPriority(Tail(sorted), a)
    ELSE <<a>> \o sorted

RECURSIVE SortAlerts(_, _)
SortAlerts(alerts, sorted) ==
    IF alerts = << >> THEN sorted
    ELSE SortAlerts(Tail(alerts), InsertByPriority(sorted, Head(alerts)))

\* an Alert; acknowledged takes the dataclass default
Alert(id, level, source) ==
    [alert_id |-> id, level |-> level, source |-> source,
     acknowledged |-> FALSE]

\* the list of _generate_alerts before it is sorted
collect_alerts(spoofing_alerts, anomalies, overall_confidence) ==
    [i \in 1..Len(spoofing_alerts) |->
        Alert(spoofing_alerts[i].alert_id,
              spoofing_to_alert_level(spoofing_alerts[i].confidence),
              "spoofing_detector")]
    \o [i \in 1..Len(anomalies) |->
        Alert(anomalies[i].anomaly_id,
              anomaly_to_alert_level(anomalies[i].severity),
              "anomaly_detector")]
    \o (IF overall_confidence < 500
        THEN << Alert(<<"low_conf", 0>>, "warning", "situation_awareness") >>
        ELSE << >>)

generate_alerts(spoofing_alerts, anomalies, overall_confidence) ==
    SortAlerts(collect_alerts(spoofing_alerts, anomalies, overall_confidence),
               << >>)

(***************************************************************************)
(* SituationAwarenessLayer: state and operations.                          *)
(***************************************************************************)
VARIABLES
    sensor_fusion,      \* SensorFusionEngine: [position_history]
    spoofing_detector,  \* SpoofingDetector
    anomaly_detector,   \* AnomalyDetector
    system_status,      \* component -> "operational" | "degraded"
    processing_times,   \* one sample per completed batch (the number of the
                        \* batch stands for the measured duration)
    clock,              \* datetime.now(), seconds
    batches,            \* process_sensor_data calls started so far
    pc,                 \* position inside process_sensor_data, or "idle",
                        \* "returned", "raised"
    frame,              \* the local variables of the running call
    result,             \* what the last call handed to its caller
    steps,              \* the steps the current call has run, in order
    args,               \* what the current call passed to its steps
    before,             \* the modules as they were when the call started
    last_op,            \* the last completed operation of the layer
    calc                \* a pure function under test: its inputs and result

vars == <<sensor_fusion, spoofing_detector, anomaly_detector, system_status,
          processing_times, clock, batches, pc, frame, result, steps, args,
          before, last_op, calc>>

Components ==
    {"sensor_fusion", "anomaly_detection", "spoofing_detection",
     "uncertainty_modeling"}

\* SituationAwarenessLayer.max_processing_time_history
max_processing_time_history == 100

\* the modules and bookkeeping of a layer, as one record
Layer ==
    [sensor_fusion |-> sensor_fusion, spoofing_detector |-> spoofing_detector,
     anomaly_detector |-> anomaly_detector, system_status |-> system_status,
     processing_times |-> processing_times]

\* SituationAwarenessLayer.__init__
NewLayer ==
    [sensor_fusion |-> [position_history |-> << >>],
     spoofing_detector |-> NewSpoofingDetector,
     anomaly_detector |-> NewAnomalyDetector,
     system_status |-> [c \in Components |-> "operational"],
     processing_times |-> << >>]

\* variant: the processing-time history is not cleared
reset_keeps_metrics(layer) ==
    [sensor_fusion |-> [position_history |-> << >>],
     spoofing_detector |-> NewSpoofingDetector,
     anomaly_detector |-> NewAnomalyDetector,
     system_status |-> [c \in DOMAIN layer.system_status |-> "operational"],
     processing_times |-> layer.processing_times]

\* variant: the spoofing detector is not constructed anew
reset_keeps_spoofing_detector(layer) ==
    [sensor_fusion |-> [position_history |-> << >>],
     spoofing_detector |-> layer.spoofing_detector,
     anomaly_detector |-> NewAnomalyDetector,
     system_status |-> [c \in DOMAIN layer.system_status |-> "operational"],
     processing_times |-> << >>]

\* SituationAwarenessLayer.reset: every module is constructed anew, the
\* metrics are cleared and every status is set to "operational"
reset(layer) ==
    [sensor_fusion |-> [position_history |-> << >>],
     spoofing_detector |-> NewSpoofingDetector,
     anomaly_detector |-> NewAnomalyDetector,
     system_status |-> [c \in DOMAIN layer.system_status |-> "operational"],
     processing_times |-> << >>]

\* variant: the status is left as it is
handle_processing_error_unmarked(status) == status

\* variant: only the first component is marked
handle_processing_error_fusion_only(status) ==
    [c \in DOMAIN status |->
        IF c = "sensor_fusion" THEN "degraded" ELSE status[c]]

\* _handle_processing_error
handle_processing_error(status) == [c \in DOMAIN status |-> "degraded"]

\* get_system_status: a copy of system_status
get_system_status(status) == [c \in DOMAIN status |-> status[c]]

\* _update_metrics
update_metrics(times, processing_time) ==
    LET t == Append(times, processing_time)
    IN  IF Len(t) > max_processing_time_history THEN Tail(t) ELSE t

\* variant: anomaly detection runs before spoofing detection
next_step_anomaly_first(step) ==
    CASE step = "fuse"        -> "anomaly"
      [] step = "anomaly"     -> "spoofing"
      [] step = "spoofing"    -> "uncertainty"
      [] step = "uncertainty" -> "confidence"
      [] step = "confidence"  -> "alerts"
      [] step = "alerts"      -> "output"
      [] step = "output"      -> "returned"

\* the order of the steps inside process_sensor_data
next_step(step) ==
    CASE step = "fuse"        -> "spoofing"
      [] step = "spoofing"    -> "anomaly"
      [] step = "anomaly"     -> "uncertainty"
      [] step = "uncertainty" -> "confidence"
      [] step = "confidence"  -> "alerts"
      [] step = "alerts"      -> "output"
      [] step = "output"      -> "returned"

StepNames ==
    {"fuse", "spoofing", "anomaly", "uncertainty", "confidence", "alerts",
     "output"}

\* the locals before the first step has run
EmptyFrame ==
    [sensor_data |-> Snapshot({}, NoneValue, NoneValue, NoneValue),
     fused_data |-> << >>, spoofing_alerts |-> << >>, anomalies |-> << >>,
     uncertainties |-> << >>, overall_confidence |-> 0, alerts |-> << >>]

NoResult == [kind |-> "none", output |-> << >>]

NoModules ==
    [sensor_fusion |-> << >>, spoofing_detector |-> << >>,
     anomaly_detector |-> << >>]

Modules ==
    [sensor_fusion |-> sensor_fusion, spoofing_detector |-> spoofing_detector,
     anomaly_detector |-> anomaly_detector]

(***************************************************************************)
(* Inputs of the model.                                                    *)
(***************************************************************************)
\* positions on one line through the origin, so that every distance between
\* two of them is a whole number of metres: PB is 300 m and PC 2000 m from PA
PA == <<3000, 4000>>

PB == <<3180, 4240>>

PC == <<4200, 5600>>

\* <<key present, value>> for each sensor
GpsInputs ==
    { <<FALSE, NoneValue>>, <<TRUE, NoneValue>>,
      <<TRUE, Reading(PA, 120, 45)>>, <<TRUE, Reading(PC, 120, 45)>> }

AisInputs ==
    { <<FALSE, NoneValue>>, <<TRUE, NoneValue>>,
      <<TRUE, Reading(PA, 120, 45)>>, <<TRUE, Reading(PB, 200, 45)>> }

RadarInputs ==
    { <<FALSE, NoneValue>>, <<TRUE, RadarReading(PA)>> }

Snapshots ==
    { Snapshot((IF g[1] THEN {"gps"} ELSE {}) \cup (IF a[1] THEN {"ais"} ELSE {})
                   \cup (IF r[1] THEN {"radar"} ELSE {}),
               g[2], a[2], r[2]) :
        g \in GpsInputs, a \in AisInputs, r \in RadarInputs }

\* seconds between the start of two consecutive batches
Elapsed == {5}

NoArgs == [spoofing |-> << >>, anomaly |-> << >>, uncertainty |-> << >>]

\* no pure function is under test
NoCalc == [op |-> "none"]

\* the layer right after construction
InitLayer ==
    /\ sensor_fusion = NewLayer.sensor_fusion
    /\ spoofing_detector = NewLayer.spoofing_detector
    /\ anomaly_detector = NewLayer.anomaly_detector
    /\ system_status = NewLayer.system_status
    /\ processing_times = NewLayer.processing_times
    /\ clock = 0
    /\ batches = 0
    /\ pc = "idle"
    /\ frame = EmptyFrame
    /\ result = NoResult
    /\ steps = << >>
    /\ args = NoArgs
    /\ before = NoModules
    /\ last_op = "init"

Init == InitLayer /\ calc = NoCalc

\* a caller invokes process_sensor_data(sensor_data)
Start ==
    /\ pc = "idle"
    /\ batches < MaxBatches
    /\ \E sd \in Snapshots, dt \in Elapsed :
          /\ frame' = [EmptyFrame EXCEPT !.sensor_data = sd]
          /\ clock' = clock + dt
    /\ batches' = batches + 1
    /\ pc' = "fuse"
    /\ steps' = << >>
    /\ args' = NoArgs
    /\ before' = Modules
    /\ result' = NoResult
    /\ UNCHANGED <<calc, sensor_fusion, spoofing_detector, anomaly_detector,
                   system_status, processing_times, last_op>>

\* the except clause: _handle_processing_error, then raise
Raise ==
    /\ system_status' = handle_processing_error(system_status)
    /\ pc' = "raised"
    /\ result' = [kind |-> "raised", output |-> << >>]
    /\ last_op' = "batch_failed"

\* Step 1: fused_data = self.sensor_fusion.fuse(sensor_data)
StepFuse ==
    /\ pc = "fuse"
    /\ LET r == fuse(sensor_fusion.position_history, frame.sensor_data, clock)
       IN  /\ sensor_fusion' = [position_history |-> r.position_history]
           /\ IF r.raised
              THEN Raise /\ frame' = frame
              ELSE /\ frame' = [frame EXCEPT !.fused_data = r.fused_data]
                   /\ pc' = next_step("fuse")
                   /\ UNCHANGED <<system_status, result, last_op>>
    /\ steps' = Append(steps, "fuse")
    /\ UNCHANGED <<calc, spoofing_detector, anomaly_detector, processing_times,
                   clock, batches, args, before>>

\* Step 2: spoofing_alerts = self.spoofing_detector.detect(sensor_data, fused_data)
StepSpoofing ==
    /\ pc = "spoofing"
    /\ LET given == frame.fused_data
           r == spoofing_detect(spoofing_detector, frame.sensor_data, clock)
       IN  /\ spoofing_detector' = r.sd
           /\ frame' = [frame EXCEPT !.spoofing_alerts = r.alerts]
           /\ args' = [args EXCEPT !.spoofing = given]
    /\ pc' = next_step("spoofing")
    /\ steps' = Append(steps, "spoofing")
    /\ UNCHANGED <<calc, sensor_fusion, anomaly_detector, system_status,
                   processing_times, clock, batches, result, before, last_op>>

\* Step 3: anomalies = self.anomaly_detector.detect(fused_data, sensor_data)
StepAnomaly ==
    /\ pc = "anomaly"
    /\ LET given == frame.fused_data
           r == anomaly_detect(anomaly_detector, given, frame.sensor_data, clock)
       IN  /\ anomaly_detector' = r.ad
           /\ args' = [args EXCEPT !.anomaly = given]
           /\ IF r.raised
              THEN Raise /\ frame' = frame
              ELSE /\ frame' = [frame EXCEPT !.anomalies = r.anomalies]
                   /\ pc' = next_step("anomaly")
                   /\ UNCHANGED <<system_status, result, last_op>>
    /\ steps' = Append(steps, "anomaly")
    /\ UNCHANGED <<calc, sensor_fusion, spoofing_detector, processing_times, clock,
                   batches, before>>

\* Step 4: uncertainties = self.uncertainty_modeler.calculate(fused_data,
\* sensor_data, anomalies)
StepUncertainty ==
    /\ pc = "uncertainty"
    /\ LET given == frame.anomalies
       IN  /\ frame' = [frame EXCEPT !.uncertainties =
                          uncertainty_calculate(frame.fused_data,
                                                frame.sensor_data, given)]
           /\ args' = [args EXCEPT !.uncertainty = given]
    /\ pc' = next_step("uncertainty")
    /\ steps' = Append(steps, "uncertainty")
    /\ UNCHANGED <<calc, sensor_fusion, spoofing_detector, anomaly_detector,
                   system_status, processing_times, clock, batches, result,
                   before, last_op, calc>>

\* Step 5: overall_confidence = self._calculate_overall_confidence(...)
StepConfidence ==
    /\ pc = "confidence"
    /\ frame' = [frame EXCEPT !.overall_confidence =
                    calculate_overall_confidence(frame.fused_data,
                        frame.uncertainties, frame.anomalies,
                        frame.spoofing_alerts)]
    /\ pc' = next_step("confidence")
    /\ steps' = Append(steps, "confidence")
    /\ UNCHANGED <<calc, sensor_fusion, spoofing_detector, anomaly_detector,
                   system_status, processing_times, clock, batches, result,
                   args, before, last_op>>

\* Step 6: alerts = self._generate_alerts(...)
StepAlerts ==
    /\ pc = "alerts"
    /\ frame' = [frame EXCEPT !.alerts =
                    generate_alerts(frame.spoofing_alerts, frame.anomalies,
                                    frame.overall_confidence)]
    /\ pc' = next_step("alerts")
    /\ steps' = Append(steps, "alerts")
    /\ UNCHANGED <<calc, sensor_fusion, spoofing_detector, anomaly_detector,
                   system_status, processing_times, clock, batches, result,
                   args, before, last_op>>

\* Step 7: the SituationAwarenessOutput is built, the processing time is
\* recorded and the output is returned
StepOutput ==
    /\ pc = "output"
    /\ result' = [kind |-> "output",
                  output |-> [fused_data |-> frame.fused_data,
                              anomalies |-> frame.anomalies,
                              uncertainties |-> frame.uncertainties,
                              spoofing_alerts |-> frame.spoofing_alerts,
                              overall_confidence |-> frame.overall_confidence,
                              alerts |-> frame.alerts,
                              system_status |-> system_status]]
    /\ processing_times' = update_metrics(processing_times, batches)
    /\ pc' = next_step("output")
    /\ steps' = Append(steps, "output")
    /\ last_op' = "batch_ok"
    /\ UNCHANGED <<calc, sensor_fusion, spoofing_detector, anomaly_detector,
                   system_status, clock, batches, frame, args, before>>

\* an exception that one of steps 1-6 raises before it has written anything
\* (the except clause of process_sensor_data catches every Exception)
StepRaises ==
    /\ pc \in StepNames \ {"output"}
    /\ Raise
    /\ steps' = Append(steps, pc)
    /\ UNCHANGED <<calc, sensor_fusion, spoofing_detector, anomaly_detector,
                   processing_times, clock, batches, frame, args, before>>

\* the caller has taken the output or the exception; the locals are gone
Return ==
    /\ pc \in {"returned", "raised"}
    /\ pc' = "idle"
    /\ frame' = EmptyFrame
    /\ result' = NoResult
    /\ steps' = << >>
    /\ args' = NoArgs
    /\ before' = NoModules
    /\ UNCHANGED <<calc, sensor_fusion, spoofing_detector, anomaly_detector,
                   system_status, processing_times, clock, batches, last_op>>

\* a caller invokes reset() between two batches
Reset ==
    /\ pc = "idle"
    /\ LET r == reset(Layer)
       IN  /\ sensor_fusion' = r.sensor_fusion
           /\ spoofing_detector' = r.spoofing_detector
           /\ anomaly_detector' = r.anomaly_detector
           /\ system_status' = r.system_status
           /\ processing_times' = r.processing_times
    /\ last_op' = "reset"
    /\ UNCHANGED <<calc, clock, batches, pc, frame, result, steps, args, before>>

Next ==
    \/ Start
    \/ StepFuse
    \/ StepSpoofing
    \/ StepAnomaly
    \/ StepUncertainty
    \/ StepConfidence
    \/ StepAlerts
    \/ StepOutput
    \/ StepRaises
    \/ Return
    \/ Reset

Spec == Init /\ [][Next]_vars

(***************************************************************************)
(* Properties of process_sensor_data and reset, checked under Spec.        *)
(***************************************************************************)
\* C1: when one of steps 1-6 of process_sensor_data raises, every entry of
\* system_status becomes "degraded", the exception reaches the caller and no
\* SituationAwarenessOutput is returned for that batch.
C1_FailureDegradesAndReraises ==
    [][ (pc \in StepNames \ {"output"} /\ pc' # next_step(pc))
            => /\ pc' = "raised"
               /\ \A c \in Components : system_status'[c] = "degraded"
               /\ result'.kind = "raised"
               /\ processing_times' = processing_times ]_vars

\* a batch whose third step (anomaly detection) raised
C1_Witness ==
    /\ pc = "raised"
    /\ steps = <<"fuse", "spoofing", "anomaly">>
    /\ \A c \in Components : system_status[c] = "degraded"

\* C2: a successful call has run every step exactly once in the order fuse,
\* spoofing, anomaly, uncertainty, confidence, alerts, output; spoofing and
\* anomaly detection were given the fused data of step 1 and the uncertainty
\* step the anomaly list of step 3.
C2_StepOrderAndDataFlow ==
    pc = "returned" =>
        /\ steps = <<"fuse", "spoofing", "anomaly", "uncertainty",
                     "confidence", "alerts", "output">>
        /\ args.spoofing = result.output.fused_data
        /\ args.anomaly = result.output.fused_data
        /\ args.uncertainty = result.output.anomalies

\* a successful call whose anomaly list was not empty
C2_Witness ==
    /\ pc = "returned"
    /\ Len(result.output.anomalies) > 0
    /\ Len(args.uncertainty) > 0

\* C3, as claimed: after a batch has raised, every module's persistent state
\* equals its state before that batch.
C3_FailedBatchLeavesModulesUntouched ==
    pc = "raised" => Modules = before

\* C4: right after reset() the fusion position history, the anomaly
\* detector's three histories, the spoofing detector's trackers and incident
\* log and processing_times are empty, and every status is "operational".
C4_ResetClearsEverything ==
    (last_op = "reset" /\ pc = "idle") =>
        /\ sensor_fusion.position_history = << >>
        /\ anomaly_detector.speed_history = << >>
        /\ anomaly_detector.course_history = << >>
        /\ anomaly_detector.position_history = << >>
        /\ spoofing_detector.previous_gps_position = << >>
        /\ spoofing_detector.previous_ais_position = << >>
        /\ spoofing_detector.last_update_time = << >>
        /\ spoofing_detector.spoofing_incidents = << >>
        /\ processing_times = << >>
        /\ \A c \in Components : system_status[c] = "operational"

\* a reset that came after two batches
C4_Witness ==
    /\ last_op = "reset"
    /\ pc = "idle"
    /\ batches >= 2

\* the detections of a batch without identifiers: what a caller compares
Detections(r) ==
    [raised |-> r.raised,
     anomalies |-> [i \in 1..Len(r.anomalies) |->
                      <<r.anomalies[i].anomaly_type, r.anomalies[i].severity,
                        r.anomalies[i].affected_sensors>>],
     spoofing_alerts |-> [i \in 1..Len(r.spoofing_alerts) |->
                      <<r.spoofing_alerts[i].spoofing_type,
                        r.spoofing_alerts[i].confidence>>]]

\* steps 1-3 of process_sensor_data run on the modules m at time now: the
\* detections, or the exception, and the modules afterwards
run_batch(m, sensor_data, now) ==
    LET f == fuse(m.sensor_fusion.position_history, sensor_data, now)
        m1 == [m EXCEPT !.sensor_fusion = [position_history |-> f.position_history]]
    IN  IF f.raised
        THEN [raised |-> TRUE, anomalies |-> << >>, spoofing_alerts |-> << >>,
              modules |-> m1]
        ELSE LET sp == spoofing_detect(m1.spoofing_detector, sensor_data, now)
                 an == anomaly_detect(m1.anomaly_detector, f.fused_data,
                                      sensor_data, now)
             IN  [raised |-> an.raised,
                  anomalies |-> an.anomalies,
                  spoofing_alerts |-> IF an.raised THEN << >> ELSE sp.alerts,
                  modules |-> [m1 EXCEPT !.spoofing_detector = sp.sd,
                                         !.anomaly_detector = an.ad]]

\* the detections of two batches b1 (at time t) and b2 (gap seconds later)
TwoBatches(m, b1, b2, t, gap) ==
    LET r1 == run_batch(m, b1, t)
        r2 == run_batch(r1.modules, b2, t + gap)
    IN  <<Detections(r1), Detections(r2)>>

\* gaps between the two batches
Gaps == {5, 20}

\* C5: after reset(), any two batches yield the same anomalies and spoofing
\* alerts (kinds, severities, confidences, affected sensors) as on a freshly
\* constructed layer, given the same time between the two batches.
C5_ResetThenSameDetections ==
    (last_op = "reset" /\ pc = "idle") =>
        \A b1 \in Snapshots, b2 \in Snapshots, gap \in Gaps :
            TwoBatches(Modules, b1, b2, clock + 5, gap)
                = TwoBatches([sensor_fusion |-> NewLayer.sensor_fusion,
                              spoofing_detector |-> NewLayer.spoofing_detector,
                              anomaly_detector |-> NewLayer.anomaly_detector],
                             b1, b2, 1, gap)

\* a reset after at least one batch, and a two-batch sequence whose second
\* batch produces a spoofing alert and an anomaly
C5_Witness ==
    /\ last_op = "reset"
    /\ pc = "idle"
    /\ batches >= 1
    /\ \E b1 \in Snapshots, b2 \in Snapshots :
          LET d == TwoBatches(Modules, b1, b2, clock + 5, 5)
          IN  /\ ~d[2].raised
              /\ Len(d[2].spoofing_alerts) > 0
              /\ Len(d[2].anomalies) > 0

\* the running call processes an empty snapshot on a layer whose modules are
\* as constructed
EmptySnapshotOnFreshLayer ==
    /\ pc = "returned"
    /\ frame.sensor_data.keys = {}
    /\ before = [sensor_fusion |-> NewLayer.sensor_fusion,
                 spoofing_detector |-> NewLayer.spoofing_detector,
                 anomaly_detector |-> NewLayer.anomaly_detector]

\* one sensor-degradation anomaly naming sensor k
DegradationFor(anomalies, k) ==
    \E i \in 1..Len(anomalies) :
        /\ anomalies[i].anomaly_type = "sensor_degradation"
        /\ anomalies[i].affected_sensors = <<k>>

\* fusion_confidence 0, position (0,0), no targets, a degradation anomaly for
\* each of gps, ais and radar
EmptySnapshotBasics(output) ==
    /\ output.fused_data.fusion_confidence = 0
    /\ output.fused_data.vessel_state.position = <<0, 0>>
    /\ Len(output.fused_data.targets) = 0
    /\ Len(output.anomalies) >= 3
    /\ \A k \in {"gps", "ais", "radar"} : DegradationFor(output.anomalies, k)

\* C9, as claimed: an empty snapshot on a fresh layer yields fusion_confidence
\* 0, position (0,0), no targets, at least 3 sensor-degradation anomalies and
\* overall_confidence <= fusion_confidence.
C9_AsClaimed ==
    EmptySnapshotOnFreshLayer =>
        /\ EmptySnapshotBasics(result.output)
        /\ result.output.overall_confidence
              <= result.output.fused_data.fusion_confidence

\* C9, amended: as above, but overall_confidence is half the mean reliability
\* of the eight uncertainties after the anomaly adjustment, which is greater
\* than fusion_confidence (0).
C9_EmptySnapshot ==
    EmptySnapshotOnFreshLayer =>
        /\ EmptySnapshotBasics(result.output)
        /\ result.output.overall_confidence =
              (SumSeq(ReliabilitiesOf(result.output.uncertainties)) \div 8) \div 2
        /\ result.output.overall_confidence
              > result.output.fused_data.fusion_confidence

C9_Witness ==
    /\ EmptySnapshotOnFreshLayer
    /\ result.kind = "output"
    /\ Len(result.output.anomalies) = 3

\* the spoofing step of the running call has returned
SpoofingDetectRan ==
    /\ Len(steps) >= 2
    /\ steps[2] = "spoofing"
    /\ ~(pc = "raised" /\ Len(steps) = 2)

\* the GPS position of this call is 2000 m from the one of the previous
\* detect call, which ran 5 s earlier
GpsMoved2000mIn5s ==
    /\ SpoofingDetectRan
    /\ "gps" \in frame.sensor_data.keys
    /\ Truthy(frame.sensor_data.val["gps"])
    /\ before.spoofing_detector.previous_gps_position # << >>
    /\ before.spoofing_detector.last_update_time = <<clock - 5>>
    /\ haversine_distance(before.spoofing_detector.previous_gps_position[1],
                          before.spoofing_detector.previous_gps_position[2],
                          frame.sensor_data.val["gps"].latitude,
                          frame.sensor_data.val["gps"].longitude) = 2000

\* the alert list holds an alert whose identifier starts with prefix
HasAlert(alerts, prefix) ==
    \E i \in 1..Len(alerts) : alerts[i].alert_id[1] = prefix

\* C10, as claimed: a GPS move of 2000 m in 5 s yields both the
\* position-jump alert and the impossible-speed alert.
C10_AsClaimed ==
    GpsMoved2000mIn5s =>
        /\ HasAlert(frame.spoofing_alerts, "gps_spoof")
        /\ HasAlert(frame.spoofing_alerts, "gps_speed")

\* C10, amended: a GPS move of 2000 m in 5 s yields the position-jump alert
\* (confidence 2000/5000) and no impossible-speed alert: the speed check is
\* the else-branch of the jump check.
C10_JumpAlertOnly ==
    GpsMoved2000mIn5s =>
        /\ \E i \in 1..Len(frame.spoofing_alerts) :
              /\ frame.spoofing_alerts[i].alert_id[1] = "gps_spoof"
              /\ frame.spoofing_alerts[i].confidence = 400
        /\ ~HasAlert(frame.spoofing_alerts, "gps_speed")

C10_Witness ==
    /\ GpsMoved2000mIn5s
    /\ HasAlert(frame.spoofing_alerts, "gps_spoof")

(***************************************************************************)
(* _generate_alerts and _calculate_overall_confidence on their own: the    *)
(* layer stays as constructed, calc holds the arguments and then the       *)
(* value returned.                                                         *)
(***************************************************************************)
\* all sequences over S of length at most n
SeqsUpTo(S, n) == UNION {[1..k -> S] : k \in 0..n}

\* confidences of the spoofing alerts handed to _generate_alerts
AlertConfidences == {499, 500, 699, 700}

\* severities of the anomalies handed to _generate_alerts
AlertSeverities == {499, 500, 799, 800}

\* spoofing alerts with the given confidences, identified by detection order
SpoofingAlertsOf(confidences) ==
    [i \in 1..Len(confidences) |->
        [SpoofingAlert("spoof", "gps_spoofing", confidences[i], <<"gps">>, "")
            EXCEPT !.alert_id = <<"spoof", i>>]]

\* anomalies with the given severities, identified by detection order
AnomaliesOf(severities) ==
    [i \in 1..Len(severities) |->
        [Anomaly("anomaly", "speed_anomaly", severities[i], <<"gps">>)
            EXCEPT !.anomaly_id = <<"anomaly", i>>]]

InitAlerts ==
    /\ InitLayer
    /\ \E cs \in SeqsUpTo(AlertConfidences, MaxListLen),
          ss \in SeqsUpTo(AlertSeverities, MaxListLen),
          oc \in {499, 500} :
          calc = [op |-> "arguments",
                  spoofing_alerts |-> SpoofingAlertsOf(cs),
                  anomalies |-> AnomaliesOf(ss),
                  overall_confidence |-> oc,
                  alerts |-> << >>]

\* alerts = self._generate_alerts(spoofing_alerts, anomalies, ..., confidence)
CallGenerateAlerts ==
    /\ calc.op = "arguments"
    /\ calc' = [calc EXCEPT
                  !.op = "generate_alerts",
                  !.alerts = generate_alerts(calc.spoofing_alerts,
                                 calc.anomalies, calc.overall_confidence)]
    /\ UNCHANGED <<sensor_fusion, spoofing_detector, anomaly_detector,
                   system_status, processing_times, clock, batches, pc, frame,
                   result, steps, args, before, last_op>>

NextAlerts == CallGenerateAlerts

SpecAlerts == InitAlerts /\ [][NextAlerts]_vars

\* the number of alerts of the list with the given identifier
CountId(alerts, id) ==
    Cardinality({i \in 1..Len(alerts) : alerts[i].alert_id = id})

\* the alerts of the list with the given identifier
WithId(alerts, id) == {alerts[i] : i \in {k \in 1..Len(alerts) : alerts[k].alert_id = id}}

\* the alerts that come from neither detector
Synthetic(alerts) ==
    {i \in 1..Len(alerts) : alerts[i].source = "situation_awareness"}

Rank(level) ==
    CASE level = "emergency" -> 4
      [] level = "critical"  -> 3
      [] level = "warning"   -> 2
      [] level = "info"      -> 1

\* where an alert was appended before sorting: spoofing-derived alerts in
\* detection order, then anomaly-derived ones, then the confidence warning
Appended(a) ==
    CASE a.source = "spoofing_detector"   -> a.alert_id[2]
      [] a.source = "anomaly_detector"    -> MaxListLen + 1 + a.alert_id[2]
      [] a.source = "situation_awareness" -> 2 * MaxListLen + 3

\* C7: alerts are ordered by non-increasing rank (emergency 4, critical 3,
\* warning 2, info 1); alerts of equal level keep the order spoofing-derived
\* (detection order), anomaly-derived (detection order), confidence warning.
C7_AlertsSortedStable ==
    calc.op = "generate_alerts" =>
        \A i \in 1..Len(calc.alerts), j \in 1..Len(calc.alerts) :
            i < j =>
                /\ Rank(calc.alerts[i].level) >= Rank(calc.alerts[j].level)
                /\ Rank(calc.alerts[i].level) = Rank(calc.alerts[j].level)
                      => Appended(calc.alerts[i]) < Appended(calc.alerts[j])

\* an anomaly-derived alert overtakes a spoofing-derived one, and alerts of
\* the three origins tie on warning
C7_Witness ==
    /\ calc.op = "generate_alerts"
    /\ \E i \in 1..Len(calc.alerts), j \in 1..Len(calc.alerts) :
          /\ i < j
          /\ calc.alerts[i].source = "anomaly_detector"
          /\ calc.alerts[j].source = "spoofing_detector"
    /\ \E i \in 1..Len(calc.alerts), j \in 1..Len(calc.alerts),
          k \in 1..Len(calc.alerts) :
          /\ i < j /\ j < k
          /\ calc.alerts[i].level = "warning"
          /\ calc.alerts[k].level = "warning"
          /\ calc.alerts[i].source = "spoofing_detector"
          /\ calc.alerts[j].source = "anomaly_detector"
          /\ calc.alerts[k].source = "situation_awareness"

\* closest points of approach of a target, in hundredths of a nautical mile
CpaInputs == {-1400, 0, 100}

\* severities the anomaly detector hands over: a missing critical sensor, and
\* a collision risk with a target at each CPA, five minutes ahead
ConfidenceSeverities ==
    {800} \cup
    {detect_collision_risk(
         << TargetReading({"cpa", "tcpa"}, "", PA, cpa, 500) >>)[1].severity :
       cpa \in CpaInputs}

\* confidences of spoofing alerts
ConfidenceSpoofing == {400, 1000}

InitConfidence ==
    /\ InitLayer
    /\ \E fc \in {0, 450, 900},
          ss \in SeqsUpTo(ConfidenceSeverities, MaxListLen),
          cs \in SeqsUpTo(ConfidenceSpoofing, MaxListLen),
          rs \in {<<600>>, <<300, 900, 900>>} :
          calc = [op |-> "arguments", fusion_confidence |-> fc,
                  severities |-> ss, confidences |-> cs,
                  reliabilities |-> rs, value |-> 0]

\* overall_confidence = self._calculate_overall_confidence(...)
CallOverallConfidence ==
    /\ calc.op = "arguments"
    /\ calc' = [calc EXCEPT
                  !.op = "overall_confidence",
                  !.value = overall_confidence_of(calc.fusion_confidence,
                                calc.severities, calc.confidences,
                                calc.reliabilities)]
    /\ UNCHANGED <<sensor_fusion, spoofing_detector, anomaly_detector,
                   system_status, processing_times, clock, batches, pc, frame,
                   result, steps, args, before, last_op>>

NextConfidence == CallOverallConfidence

SpecConfidence == InitConfidence /\ [][NextConfidence]_vars

\* the value with entry i of the severities raised to s
WithSeverity(i, s) ==
    overall_confidence_of(calc.fusion_confidence,
        [calc.severities EXCEPT ![i] = s], calc.confidences,
        calc.reliabilities)

\* the value with entry i of the spoofing confidences raised to c
WithConfidence(i, c) ==
    overall_confidence_of(calc.fusion_confidence, calc.severities,
        [calc.confidences EXCEPT ![i] = c], calc.reliabilities)

\* the overall confidence lies in [0,1]
OverallConfidenceInRange ==
    calc.op = "overall_confidence" => calc.value \in 0..One

\* C8: the overall confidence is in [0,1], and raising one anomaly severity
\* or one spoofing confidence, all else fixed, never raises it.
C8_ConfidenceBoundedMonotone ==
    calc.op = "overall_confidence" =>
        /\ calc.value \in 0..One
        /\ \A i \in 1..Len(calc.severities), s \in ConfidenceSeverities :
              s >= calc.severities[i] => WithSeverity(i, s) <= calc.value
        /\ \A i \in 1..Len(calc.confidences), c \in ConfidenceSpoofing :
              c >= calc.confidences[i] => WithConfidence(i, c) <= calc.value

(***************************************************************************)
(* Sensor fusion, rolling buffers.                                         *)
(***************************************************************************)
\* the fuse step of the running call has run
FuseRan == Len(steps) >= 1 /\ steps[1] = "fuse" /\ before # NoModules

\* C11: fuse never fails: whatever sensor key is absent, an empty mapping or
\* null, fuse returns a FusedData without raising.
C11_FuseNeverRaises ==
    FuseRan =>
        ~fuse(before.sensor_fusion.position_history, frame.sensor_data,
              clock).raised

\* GPS 2000 m from AIS: every batch raises a multi-sensor spoofing alert
Disagreeing == Snapshot({"gps", "ais"}, Reading(PC, 120, 45),
                        Reading(PA, 120, 45), NoneValue)

\* batches a long-running layer has behind it, all on Disagreeing: one short
\* of the caps of 100
WarmBatches == max_incidents - 1

\* snapshots of the long run: disagreeing sensors, agreeing sensors, radar
\* only, and two snapshots on which the batch raises (step 1, step 3)
LongSnapshots ==
    { Disagreeing,
      Snapshot({"gps", "ais"}, Reading(PA, 120, 45), Reading(PA, 120, 45),
               NoneValue),
      Snapshot({"radar"}, NoneValue, NoneValue, RadarReading(PA)),
      Snapshot({"ais"}, NoneValue, NoneValue, NoneValue),
      Snapshot({"gps", "ais"}, NoneValue, Reading(PA, 120, 45), NoneValue) }

\* a caller invokes process_sensor_data(sensor_data): WarmBatches times on
\* Disagreeing, then on any of LongSnapshots
StartLong ==
    /\ pc = "idle"
    /\ batches < WarmBatches + MaxBatches
    /\ \E sd \in LongSnapshots, dt \in Elapsed :
          /\ batches < WarmBatches => sd = Disagreeing
          /\ frame' = [EmptyFrame EXCEPT !.sensor_data = sd]
          /\ clock' = clock + dt
    /\ batches' = batches + 1
    /\ pc' = "fuse"
    /\ steps' = << >>
    /\ args' = NoArgs
    /\ before' = Modules
    /\ result' = NoResult
    /\ UNCHANGED <<calc, sensor_fusion, spoofing_detector, anomaly_detector,
                   system_status, processing_times, last_op>>

NextLong ==
    \/ StartLong
    \/ StepFuse
    \/ StepSpoofing
    \/ StepAnomaly
    \/ StepUncertainty
    \/ StepConfidence
    \/ StepAlerts
    \/ StepOutput
    \/ Return

SpecLong == Init /\ [][NextLong]_vars

\* the newest n entries of s, oldest first
Newest(s, n) == IF Len(s) > n THEN SubSeq(s, Len(s) - n + 1, Len(s)) ELSE s

\* C12: the anomaly detector's three histories have one length, at most 30,
\* and hold the newest fused samples in arrival order; the incident log has
\* at most 100 entries and gains one only in a batch with a spoofing alert;
\* the processing-time history has at most 100 entries and gains one only
\* when a batch completes.
C12_RollingBuffers ==
    [][ LET ad == anomaly_detector
            vs == frame.fused_data.vessel_state
            log == spoofing_detector.spoofing_incidents
            log2 == spoofing_detector'.spoofing_incidents
        IN  /\ Len(anomaly_detector'.speed_history) <= 30
            /\ Len(anomaly_detector'.course_history)
                  = Len(anomaly_detector'.speed_history)
            /\ Len(anomaly_detector'.position_history)
                  = Len(anomaly_detector'.speed_history)
            /\ pc = "anomaly" =>
                  /\ anomaly_detector'.speed_history
                        = Newest(Append(ad.speed_history, vs.speed), 30)
                  /\ anomaly_detector'.course_history
                        = Newest(Append(ad.course_history, vs.course), 30)
                  /\ anomaly_detector'.position_history
                        = Newest(Append(ad.position_history,
                              [lat |-> vs.position[1], lon |-> vs.position[2],
                               time |-> clock]), 30)
            /\ (pc # "anomaly" /\ last_op' # "reset") =>
                  anomaly_detector' = anomaly_detector
            /\ Len(log2) <= 100
            /\ (log2 # log /\ last_op' # "reset") =>
                  /\ pc = "spoofing"
                  /\ Len(frame'.spoofing_alerts) > 0
                  /\ log2 = Newest(Append(log, log2[Len(log2)]), 100)
                  /\ log2[Len(log2)].timestamp = clock
            /\ (pc = "spoofing" /\ pc' = "anomaly"
                  /\ Len(frame'.spoofing_alerts) = 0) => log2 = log
            /\ Len(processing_times') <= 100
            /\ (processing_times' # processing_times /\ last_op' # "reset") =>
                  /\ pc' = "returned"
                  /\ processing_times'
                        = Newest(Append(processing_times, batches), 100)
      ]_vars

\* the second batch after the warm-up has returned: each of the three
\* buffers was full and has dropped its oldest entry
C12_Witness ==
    /\ pc = "returned"
    /\ batches = WarmBatches + 2
    /\ Len(anomaly_detector.speed_history) = 30
    /\ Len(spoofing_detector.spoofing_incidents) = 100
    /\ spoofing_detector.spoofing_incidents[99].timestamp = clock - 5
    /\ spoofing_detector.spoofing_incidents[100].timestamp = clock
    /\ Len(processing_times) = 100
    /\ processing_times[99] = batches - 1
    /\ processing_times[100] = batches

(***************************************************************************)
(* AnomalyDetector.detect on its own: fuse and detect are called on a      *)
(* sequence of snapshots, 5 s apart; calc holds the two modules' state,    *)
(* the snapshot of the last call and what detect returned.                 *)
(***************************************************************************)
\* an AIS target with identity, position, CPA and TCPA
AisTarget(mmsi, cpa, tcpa) ==
    TargetReading({"mmsi", "latitude", "longitude", "cpa", "tcpa"},
                  mmsi, PB, cpa, tcpa)

\* an AIS reading that carries a target list
AisWithTargets(pos, spd, targets) ==
    [Reading(pos, spd, 45) EXCEPT !.has = @ \cup {"targets"},
                                  !.targets = targets]

AnomalySnapshots ==
    { Snapshot({}, NoneValue, NoneValue, NoneValue),
      Snapshot({"gps", "ais", "radar"}, Reading(PA, 120, 45),
               AisWithTargets(PA, 120, << AisTarget(1, -1400, 500) >>),
               RadarReading(PA)),
      Snapshot({"gps", "ais"}, Reading(PA, 120, 45),
               AisWithTargets(PA, 120, << AisTarget(1, 0, 1) >>), NoneValue),
      Snapshot({"gps", "ais", "radar"}, Reading(PC, 300, 45),
               AisWithTargets(PA, 120, << AisTarget(1, 199, 999),
                                          AisTarget(2, -10, 500) >>),
               EmptyDict),
      Snapshot({"gps", "radar"}, EmptyDict, NoneValue, RadarReading(PA)),
      Snapshot({"gps"}, Reading(PA, 120, 45), NoneValue, NoneValue),
      Snapshot({"gps", "ais"}, Reading(PA, 120, 45),
               AisWithTargets(PA, 120, << AisTarget(1, 200, 500) >>), NoneValue),
      Snapshot({"gps", "ais", "radar"}, Reading(PB, 200, 45),
               Reading(PA, 120, 45), RadarReading(PA)),
      Snapshot({"gps"}, NoneValue, NoneValue, NoneValue),
      Snapshot({"gps", "ais", "radar"}, Reading(PA, 120, 45), EmptyDict,
               RadarReading(PA)),
      Snapshot({"ais", "radar"}, NoneValue, Reading(PA, 120, 45),
               RadarReading(PA)) }

InitAnomaly ==
    /\ InitLayer
    /\ calc = [op |-> "constructed", calls |-> 0,
               position_history |-> << >>, ad |-> NewAnomalyDetector,
               raw_sensor_data |-> Snapshot({}, NoneValue, NoneValue, NoneValue),
               raised |-> FALSE, anomalies |-> << >>]

\* fused_data = fusion.fuse(raw); anomalies = detector.detect(fused_data, raw)
CallAnomalyDetect ==
    /\ calc.calls < MaxCalls
    /\ \E raw \in AnomalySnapshots :
          LET now == 5 * (calc.calls + 1)
              f == fuse(calc.position_history, raw, now)
              r == anomaly_detect(calc.ad, f.fused_data, raw, now)
          IN  calc' = [op |-> "detect", calls |-> calc.calls + 1,
                       position_history |-> f.position_history,
                       ad |-> r.ad, raw_sensor_data |-> raw,
                       raised |-> r.raised, anomalies |-> r.anomalies]
    /\ UNCHANGED <<sensor_fusion, spoofing_detector, anomaly_detector,
                   system_status, processing_times, clock, batches, pc, frame,
                   result, steps, args, before, last_op>>

NextAnomaly == CallAnomalyDetect

SpecAnomaly == InitAnomaly /\ [][NextAnomaly]_vars

\* C13: every anomaly detect returns has a severity in [0,1], for every
\* target list whose CPA and TCPA satisfy the collision-risk trigger.
C13_SeverityInUnitInterval ==
    calc.op = "detect" =>
        \A i \in 1..Len(calc.anomalies) :
            calc.anomalies[i].severity \in 0..One

\* the anomalies of the last detect call that report sensor k as degraded
DegradationsOf(k) ==
    {i \in 1..Len(calc.anomalies) :
        /\ calc.anomalies[i].anomaly_type = "sensor_degradation"
        /\ \E j \in 1..Len(calc.anomalies[i].affected_sensors) :
              calc.anomalies[i].affected_sensors[j] = k}

\* sensor k is absent from the snapshot, or its value is None or {}
AbsentOrEmpty(sd, k) ==
    k \notin sd.keys \/ sd.val[k].none \/ sd.val[k].has = {}

NoOutput == [batch |-> 0, output |-> << >>]

\* SituationAwarenessOutput.to_dict, without the timestamps
to_dict(output) ==
    [fused_data |-> output.fused_data,
     anomalies |-> output.anomalies,
     uncertainties |-> output.uncertainties,
     spoofing_alerts |-> output.spoofing_alerts,
     overall_confidence |-> output.overall_confidence,
     alerts |-> output.alerts,
     system_status |-> output.system_status,
     has_spoofing |-> Len(output.spoofing_alerts) > 0,
     critical_alert_count |->
        Cardinality({i \in 1..Len(output.alerts) :
                        output.alerts[i].level \in {"critical", "emergency"}})]

\* variant: a failed batch clears the stored output
on_batch_error_clears(latest_output) == NoOutput

\* the except clause of background_processing: print and sleep, latest_output
\* is not assigned
on_batch_error(latest_output) == latest_output

\* the body of get_status, run while holding output_lock
get_status(latest_output) ==
    IF latest_output.batch = 0
    THEN [status |-> "initializing", batch |-> 0, body |-> << >>]
    ELSE [status |-> "ok", batch |-> latest_output.batch,
          body |-> to_dict(latest_output.output)]

InitServer ==
    /\ InitLayer
    /\ calc = [op |-> "server", latest_output |-> NoOutput, lock |-> "free",
               worker |-> "run", reader |-> "idle",
               response |-> [status |-> "none", batch |-> 0, body |-> << >>]]

\* sensor_data = simulator.generate_sensor_data();
\* the thread enters sa_layer.process_sensor_data(sensor_data)
WorkerStart ==
    /\ pc = "idle"
    /\ batches < MaxBatches
    /\ \E sd \in LongSnapshots, dt \in Elapsed :
          /\ frame' = [EmptyFrame EXCEPT !.sensor_data = sd]
          /\ clock' = clock + dt
    /\ batches' = batches + 1
    /\ pc' = "fuse"
    /\ steps' = << >>
    /\ args' = NoArgs
    /\ before' = Modules
    /\ result' = NoResult
    /\ UNCHANGED <<calc, sensor_fusion, spoofing_detector, anomaly_detector,
                   system_status, processing_times, last_op>>

\* with output_lock: (the thread enters)
WorkerAcquire ==
    /\ pc = "returned"
    /\ calc.worker = "run"
    /\ calc.lock = "free"
    /\ calc' = [calc EXCEPT !.lock = "worker", !.worker = "acquired"]
    /\ UNCHANGED <<sensor_fusion, spoofing_detector, anomaly_detector,
                   system_status, processing_times, clock, batches, pc, frame,
                   result, steps, args, before, last_op>>

\* latest_output = output
WorkerAssign ==
    /\ calc.worker = "acquired"
    /\ calc' = [calc EXCEPT
                  !.latest_output = [batch |-> batches, output |-> result.output],
                  !.worker = "assigned"]
    /\ UNCHANGED <<sensor_fusion, spoofing_detector, anomaly_detector,
                   system_status, processing_times, clock, batches, pc, frame,
                   result, steps, args, before, last_op>>

\* the thread leaves the with-block and sleeps; the next iteration follows
WorkerRelease ==
    /\ calc.worker = "assigned"
    /\ calc' = [calc EXCEPT !.lock = "free", !.worker = "run"]
    /\ pc' = "idle"
    /\ frame' = EmptyFrame
    /\ result' = NoResult
    /\ steps' = << >>
    /\ args' = NoArgs
    /\ before' = NoModules
    /\ UNCHANGED <<sensor_fusion, spoofing_detector, anomaly_detector,
                   system_status, processing_times, clock, batches, last_op>>

\* except Exception: print, sleep; the next iteration follows
WorkerCatch ==
    /\ pc = "raised"
    /\ calc' = [calc EXCEPT !.latest_output = on_batch_error(@)]
    /\ pc' = "idle"
    /\ frame' = EmptyFrame
    /\ result' = NoResult
    /\ steps' = << >>
    /\ args' = NoArgs
    /\ before' = NoModules
    /\ UNCHANGED <<sensor_fusion, spoofing_detector, anomaly_detector,
                   system_status, processing_times, clock, batches, last_op>>

\* GET /api/status: the handler enters "with output_lock"
ReaderAcquire ==
    /\ calc.reader = "idle"
    /\ calc.lock = "free"
    /\ calc' = [calc EXCEPT !.lock = "reader", !.reader = "locked"]
    /\ UNCHANGED <<sensor_fusion, spoofing_detector, anomaly_detector,
                   system_status, processing_times, clock, batches, pc, frame,
                   result, steps, args, before, last_op>>

\* the handler builds its response from latest_output
ReaderRead ==
    /\ calc.reader = "locked"
    /\ calc' = [calc EXCEPT !.response = get_status(calc.latest_output),
                            !.reader = "read"]
    /\ UNCHANGED <<sensor_fusion, spoofing_detector, anomaly_detector,
                   system_status, processing_times, clock, batches, pc, frame,
                   result, steps, args, before, last_op>>

\* the handler leaves the with-block and returns the response
ReaderRelease ==
    /\ calc.reader = "read"
    /\ calc' = [calc EXCEPT !.lock = "free", !.reader = "idle"]
    /\ UNCHANGED <<sensor_fusion, spoofing_detector, anomaly_detector,
                   system_status, processing_times, clock, batches, pc, frame,
                   result, steps, args, before, last_op>>

NextServer ==
    \/ WorkerStart
    \/ StepFuse
    \/ StepSpoofing
    \/ StepAnomaly
    \/ StepUncertainty
    \/ StepConfidence
    \/ StepAlerts
    \/ StepOutput
    \/ StepRaises
    \/ WorkerAcquire
    \/ WorkerAssign
    \/ WorkerRelease
    \/ WorkerCatch
    \/ ReaderAcquire
    \/ ReaderRead
    \/ ReaderRelease

SpecServer == InitServer /\ [][NextServer]_vars

\* the number of the latest batch whose output the thread has stored: the
\* latest batch process_sensor_data returned from (the layer logs one
\* processing time, here the batch number, per returned batch), or the one
\* before while the thread has not yet assigned its output
MostRecentCompleted ==
    LET n == Len(processing_times)
        pending == pc = "returned" /\ calc.worker \in {"run", "acquired"}
    IN  IF pending
        THEN (IF n >= 2 THEN processing_times[n - 1] ELSE 0)
        ELSE (IF n >= 1 THEN processing_times[n] ELSE 0)

AngleInputs == {0, 45, 90, 180, 270, 315, 360}

\* their weights, in thousandths
AngleWeights == {500, 850}

InitAngle ==
    /\ InitLayer
    /\ \E as \in SeqsUpTo(AngleInputs \X AngleWeights, MaxListLen) :
          /\ as # << >>
          /\ calc = [op |-> "arguments", angles |-> as, value |-> 0]

\* self._weighted_angle_fusion(angles, default=0.0)
CallAngleFusion ==
    /\ calc.op = "arguments"
    /\ calc' = [calc EXCEPT !.op = "angle_fusion",
                            !.value = weighted_angle_fusion(calc.angles, 0)]
    /\ UNCHANGED <<sensor_fusion, spoofing_detector, anomaly_detector,
                   system_status, processing_times, clock, batches, pc, frame,
                   result, steps, args, before, last_op>>

NextAngle == CallAngleFusion

SpecAngle == InitAngle /\ [][NextAngle]_vars

\* the fused angle does not depend on the order of the inputs
AngleFusionOrderInvariant ==
    calc.op = "angle_fusion" =>
        \A p \in Permutations(1..Len(calc.angles)) :
            weighted_angle_fusion([i \in 1..Len(calc.angles) |->
                                      calc.angles[p[i]]], 0) = calc.value

\* C15: angle fusion is invariant to the order of its inputs, returns a value
\* in [0,360) for every non-empty input, and fuses 0 and 360 of equal weight
\* to 0.
C15_AngleFusion ==
    calc.op = "angle_fusion" =>
        /\ AngleFusionOrderInvariant
        /\ calc.value >= 0
        /\ calc.value < 360
        /\ \A w \in AngleWeights :
              calc.angles = << <<0, w>>, <<360, w>> >> => calc.value = 0

(***************************************************************************)
(* Cross-validation of the own-ship positions on its own:                  *)
(* SpoofingDetector._detect_multi_sensor_spoofing and                      *)
(* AnomalyDetector._detect_sensor_mismatch on the same snapshot.           *)
(***************************************************************************)
\* 500 m from PA, the threshold itself
PE == <<3300, 4400>>

\* 505 m from PA
PF == <<3303, 4404>>

\* off the line of the other positions: 5000 m from PA
PT == <<6000, 0>>

\* a radar dict without own_ship
RadarNoOwnShip == [EmptyDict EXCEPT !.has = {"targets"}]

\* a radar dict whose own_ship has no coordinates
RadarNoCoordinates == [EmptyDict EXCEPT !.has = {"own_ship"}]

\* a GPS dict with a speed and no position
SpeedOnly == [EmptyDict EXCEPT !.has = {"speed"}, !.speed = 120]

CrossGps ==
    { <<FALSE, NoneValue>>, <<TRUE, NoneValue>>, <<TRUE, EmptyDict>>,
      <<TRUE, SpeedOnly>>, <<TRUE, Reading(PA, 120, 45)>>,
      <<TRUE, Reading(PC, 120, 45)>> }

CrossAis ==
    { <<FALSE, NoneValue>>, <<TRUE, Reading(PA, 120, 45)>>,
      <<TRUE, Reading(PB, 120, 45)>>, <<TRUE, Reading(PE, 120, 45)>>,
      <<TRUE, Reading(PF, 120, 45)>>, <<TRUE, Reading(PT, 120, 45)>> }

CrossRadar ==
    { <<FALSE, NoneValue>>, <<TRUE, EmptyDict>>, <<TRUE, RadarNoOwnShip>>,
      <<TRUE, RadarNoCoordinates>>, <<TRUE, RadarReading(PA)>>,
      <<TRUE, RadarReading(PC)>> }

CrossSnapshots ==
    { Snapshot((IF g[1] THEN {"gps"} ELSE {}) \cup (IF a[1] THEN {"ais"} ELSE {})
                   \cup (IF r[1] THEN {"radar"} ELSE {}),
               g[2], a[2], r[2]) :
        g \in CrossGps, a \in CrossAis, r \in CrossRadar }

InitCross ==
    /\ InitLayer
    /\ \E raw \in CrossSnapshots :
          calc = [op |-> "snapshot", raw_sensor_data |-> raw,
                  alerts |-> << >>, raised |-> FALSE, anomalies |-> << >>]

\* spoofing._detect_multi_sensor_spoofing(raw, None) and
\* anomaly._detect_sensor_mismatch(raw) on the same snapshot
CallCrossValidation ==
    /\ calc.op = "snapshot"
    /\ LET raw == calc.raw_sensor_data
       IN  calc' = [calc EXCEPT
                      !.op = "cross_validated",
                      !.alerts = detect_multi_sensor_spoofing(raw),
                      !.raised = detect_sensor_mismatch_raises(raw),
                      !.anomalies = IF detect_sensor_mismatch_raises(raw)
                                    THEN << >>
                                    ELSE detect_sensor_mismatch(raw)]
    /\ UNCHANGED <<sensor_fusion, spoofing_detector, anomaly_detector,
                   system_status, processing_times, clock, batches, pc, frame,
                   result, steps, args, before, last_op>>

NextCross == CallCrossValidation

SpecCross == InitCross /\ [][NextCross]_vars

\* sensor k of the snapshot carries an own-ship position
CarriesPosition(sd, k) ==
    /\ k \in sd.keys
    /\ ~sd.val[k].none
    /\ IF k = "radar"
       THEN /\ "own_ship" \in sd.val[k].has
            /\ {"latitude", "longitude"} \subseteq sd.val[k].own_ship.has
       ELSE {"latitude", "longitude"} \subseteq sd.val[k].has

PositionOf(sd, k) ==
    IF k = "radar"
    THEN <<sd.val[k].own_ship.latitude, sd.val[k].own_ship.longitude>>
    ELSE <<sd.val[k].latitude, sd.val[k].longitude>>

Present(sd) == {k \in {"gps", "ais", "radar"} : CarriesPosition(sd, k)}

Apart(sd, k1, k2) ==
    haversine_distance(PositionOf(sd, k1)[1], PositionOf(sd, k1)[2],
                       PositionOf(sd, k2)[1], PositionOf(sd, k2)[2])

PairwiseDistances(sd) ==
    {Apart(sd, p[1], p[2]) :
        p \in {q \in Present(sd) \X Present(sd) : q[1] # q[2]}}

\* C16: cross-validation emits exactly one multi-sensor spoofing alert when
\* at least two of the gps, ais and radar own-ship positions are present and
\* some pair is more than 500 m apart, with confidence
\* min(1, maximum pairwise distance / 2000), and none otherwise; identical
\* GPS and AIS coordinates without a radar position give no multi-sensor
\* alert and no sensor-mismatch anomaly.
C16_MultiSensorAlert ==
    calc.op = "cross_validated" =>
        LET sd == calc.raw_sensor_data
            ds == PairwiseDistances(sd)
        IN  /\ IF Cardinality(Present(sd)) >= 2 /\ \E d \in ds : d > 500
               THEN /\ Len(calc.alerts) = 1
                    /\ calc.alerts[1].spoofing_type = "multi_sensor_spoofing"
                    /\ \E m \in ds :
                          /\ \A d \in ds : d <= m
                          /\ calc.alerts[1].confidence
                                = Min(One, (m * One) \div 2000)
               ELSE calc.alerts = << >>
            /\ (/\ Present(sd) = {"gps", "ais"}
                /\ PositionOf(sd, "gps") = PositionOf(sd, "ais"))
                  => /\ calc.alerts = << >>
                     /\ ~calc.raised
                     /\ calc.anomalies = << >>

\* three positions, the farthest pair 505 m apart: one alert, confidence 0.252
C16_Witness ==
    /\ calc.op = "cross_validated"
    /\ Present(calc.raw_sensor_data) = {"gps", "ais", "radar"}
    /\ PositionOf(calc.raw_sensor_data, "gps")
          = PositionOf(calc.raw_sensor_data, "radar")
    /\ Len(calc.alerts) = 1
    /\ calc.alerts[1].confidence = 252

\* the sum of the distances above 500 m between sensor k and the others
OutlierScore(sd, k) ==
    LET others == Present(sd) \ {k}
        far(j) == IF Apart(sd, k, j) > 500 THEN Apart(sd, k, j) ELSE 0
        j1 == CHOOSE j \in others : TRUE
        j2 == CHOOSE j \in others \ {j1} : TRUE
    IN  far(j1) + far(j2)

\* C19: the sensor a multi-sensor alert names as likely spoofed is, when all
\* three positions are present, a sensor whose sum of pairwise distances
\* above 500 m is the highest of the three, and "GPS" when fewer than three
\* positions are present.
C19_LikelySpoofed ==
    (calc.op = "cross_validated" /\ calc.alerts # << >>) =>
        LET sd == calc.raw_sensor_data
            named == calc.alerts[1].likely_spoofed
        IN  IF Cardinality(Present(sd)) = 3
            THEN /\ named \in Present(sd)
                 /\ \A k \in Present(sd) :
                       OutlierScore(sd, named) >= OutlierScore(sd, k)
            ELSE named = "GPS"

\* GPS and radar agree and AIS is 5000 m away: AIS is named
C19_Witness ==
    /\ calc.op = "cross_validated"
    /\ Present(calc.raw_sensor_data) = {"gps", "ais", "radar"}
    /\ Len(calc.alerts) = 1
    /\ calc.alerts[1].likely_spoofed = "ais"
    /\ OutlierScore(calc.raw_sensor_data, "ais") = 10000

(***************************************************************************)
(* SpoofingDetector.detect on its own: a detector that is called with      *)
(* snapshots at varying intervals and constructed anew by reset().         *)
(***************************************************************************)
\* number of detect calls on one detector
MaxDetectCalls == 2

\* 5000 m from PA
PG == <<6000, 8000>>

\* seconds between two consecutive detect calls
DetectGaps == {0, 2, 7, 50}

DetectSnapshots ==
    { Snapshot((IF g[1] THEN {"gps"} ELSE {}) \cup (IF a[1] THEN {"ais"} ELSE {}),
               g[2], a[2], NoneValue) :
        g \in { <<FALSE, NoneValue>>, <<TRUE, Reading(PA, 120, 45)>>,
                <<TRUE, Reading(PB, 120, 45)>>, <<TRUE, Reading(PC, 120, 45)>>,
                <<TRUE, Reading(PG, 120, 45)>> },
        a \in { <<FALSE, NoneValue>>, <<TRUE, Reading(PA, 120, 45)>>,
                <<TRUE, Reading(PC, 120, 45)>> } }

InitDetect ==
    /\ InitLayer
    /\ calc = [op |-> "constructed", calls |-> 0, now |-> 0,
               sd |-> NewSpoofingDetector, prior |-> NewSpoofingDetector,
               raw_sensor_data |-> Snapshot({}, NoneValue, NoneValue, NoneValue),
               alerts |-> << >>]

\* alerts = detector.detect(raw, fused_data), dt seconds after the last call
CallSpoofingDetect ==
    /\ calc.calls < MaxDetectCalls
    /\ \E raw \in DetectSnapshots, dt \in DetectGaps :
          LET now == calc.now + dt
              r == spoofing_detect(calc.sd, raw, now)
          IN  calc' = [op |-> "detect", calls |-> calc.calls + 1, now |-> now,
                       sd |-> r.sd, prior |-> calc.sd,
                       raw_sensor_data |-> raw, alerts |-> r.alerts]
    /\ UNCHANGED <<sensor_fusion, spoofing_detector, anomaly_detector,
                   system_status, processing_times, clock, batches, pc, frame,
                   result, steps, args, before, last_op>>

\* reset() replaces the detector by a new SpoofingDetector
ResetDetector ==
    /\ calc.op = "detect"
    /\ calc' = [calc EXCEPT !.op = "reset",
                            !.sd = reset(NewLayer).spoofing_detector,
                            !.alerts = << >>]
    /\ UNCHANGED <<sensor_fusion, spoofing_detector, anomaly_detector,
                   system_status, processing_times, clock, batches, pc, frame,
                   result, steps, args, before, last_op>>

NextDetect == CallSpoofingDetect \/ ResetDetector

SpecDetect == InitDetect /\ [][NextDetect]_vars

\* the alerts of the last call whose id starts with prefix
AlertsOf(prefix) ==
    {i \in 1..Len(calc.alerts) : calc.alerts[i].alert_id[1] = prefix}

\* distance between the GPS position of the last call and the one before
GpsDistance ==
    haversine_distance(calc.prior.previous_gps_position[1],
                       calc.prior.previous_gps_position[2],
                       calc.raw_sensor_data.val["gps"].latitude,
                       calc.raw_sensor_data.val["gps"].longitude)

\* seconds since the previous GPS position was recorded
GpsElapsed == calc.now - calc.prior.last_update_time[1]

\* distance / elapsed, converted to knots, exceeds 60
ImpliedSpeedAbove60 == GpsDistance * 97192 > 60 * 50000 * GpsElapsed

\* C17: with a previous GPS position and a positive elapsed time the
\* position-jump alert (confidence min(1, distance / 5000)) is emitted if and
\* only if distance > 1000 m and elapsed < 10 s; otherwise the
\* impossible-speed alert (confidence min(1, implied speed / 100)) is emitted
\* if and only if the implied speed exceeds 60 knots; at most one of the two
\* per call, none on the first call after construction or reset; a move of
\* 5000 m in 2 s gives a GPS-spoofing alert of confidence >= 0.5.
C17_GpsMovementAlerts ==
    (calc.op = "detect" /\ CarriesPosition(calc.raw_sensor_data, "gps")) =>
        LET jump == AlertsOf("gps_spoof")
            fast == AlertsOf("gps_speed")
        IN  /\ Cardinality(jump) + Cardinality(fast) <= 1
            /\ calc.prior.previous_gps_position = << >>
                  => jump = {} /\ fast = {}
            /\ (calc.prior.previous_gps_position # << >> /\ GpsElapsed > 0) =>
                  /\ jump # {} <=> (GpsDistance > 1000 /\ GpsElapsed < 10)
                  /\ \A i \in jump :
                        calc.alerts[i].confidence
                           = Min(One, (GpsDistance * One) \div 5000)
                  /\ ~(GpsDistance > 1000 /\ GpsElapsed < 10)
                        => (fast # {} <=> ImpliedSpeedAbove60)
                  /\ \A i \in fast :
                        calc.alerts[i].confidence
                           = Min(One, (GpsDistance * 97192)
                                         \div (GpsElapsed * 5000))
                  /\ (GpsDistance = 5000 /\ GpsElapsed = 2) =>
                        \E i \in 1..Len(calc.alerts) :
                           /\ calc.alerts[i].spoofing_type = "gps_spoofing"
                           /\ calc.alerts[i].confidence >= One \div 2

\* the second of two calls: GPS has moved 5000 m in 2 s and the jump alert
\* has confidence 1
C17_Witness ==
    /\ calc.op = "detect"
    /\ calc.calls = 2
    /\ CarriesPosition(calc.raw_sensor_data, "gps")
    /\ calc.prior.previous_gps_position # << >>
    /\ GpsDistance = 5000
    /\ GpsElapsed = 2
    /\ \E i \in AlertsOf("gps_spoof") : calc.alerts[i].confidence = One

\* C18: after a detect call whose snapshot carries a GPS position,
\* previous_gps_position is that position and last_update_time that call's
\* time; after a call whose snapshot carries an AIS position,
\* previous_ais_position is that position; whether or not an alert fired.
C18_TrackersFollowReadings ==
    calc.op = "detect" =>
        /\ CarriesPosition(calc.raw_sensor_data, "gps")
              => /\ calc.sd.previous_gps_position
                       = PositionOf(calc.raw_sensor_data, "gps")
                 /\ calc.sd.last_update_time = <<calc.now>>
        /\ CarriesPosition(calc.raw_sensor_data, "ais")
              => calc.sd.previous_ais_position
                    = PositionOf(calc.raw_sensor_data, "ais")

\* a call in which both the GPS and the AIS jump alert fired
C18_Witness ==
    /\ calc.op = "detect"
    /\ AlertsOf("gps_spoof") # {}
    /\ AlertsOf("ais_jump") # {}
    /\ calc.sd.previous_gps_position = PositionOf(calc.raw_sensor_data, "gps")
    /\ calc.sd.previous_gps_position # calc.prior.previous_gps_position
    /\ calc.sd.previous_ais_position # calc.prior.previous_ais_position
    /\ calc.sd.last_update_time = <<calc.now>>

(***************************************************************************)
(* SensorFusionEngine.fuse on its own: one engine that is called with      *)
(* snapshots at varying intervals.                                         *)
(***************************************************************************)
\* number of fuse calls on one engine
MaxFuseCalls == 2

\* seconds between two consecutive fuse calls
FuseGaps == {1, 5, 40}

FuseSnapshots ==
    { Snapshot((IF g[1] THEN {"gps"} ELSE {}) \cup (IF a[1] THEN {"ais"} ELSE {})
                   \cup (IF r[1] THEN {"radar"} ELSE {}),
               g[2], a[2], r[2]) :
        g \in { <<FALSE, NoneValue>>, <<TRUE, Reading(PA, 120, 45)>>,
                <<TRUE, Reading(PC, 120, 45)>> },
        a \in { <<FALSE, NoneValue>>, <<TRUE, Reading(PA, 120, 45)>>,
                <<TRUE, Reading(PB, 120, 45)>> },
        r \in { <<FALSE, NoneValue>>, <<TRUE, RadarReading(PA)>> } }

InitFuse ==
    /\ InitLayer
    /\ calc = [op |-> "constructed", calls |-> 0, now |-> 0,
               position_history |-> << >>, prior_history |-> << >>,
               raw_sensor_data |-> Snapshot({}, NoneValue, NoneValue, NoneValue),
               prior_raw |-> Snapshot({}, NoneValue, NoneValue, NoneValue),
               position |-> <<0, 0>>]

\* fused_data = engine.fuse(raw), dt seconds after the last call
CallFuse ==
    /\ calc.calls < MaxFuseCalls
    /\ \E raw \in FuseSnapshots, dt \in FuseGaps :
          LET now == calc.now + dt
              r == fuse(calc.position_history, raw, now)
          IN  /\ ~r.raised
              /\ calc' = [op |-> "fuse", calls |-> calc.calls + 1, now |-> now,
                          position_history |-> r.position_history,
                          prior_history |-> calc.position_history,
                          raw_sensor_data |-> raw,
                          prior_raw |-> calc.raw_sensor_data,
                          position |-> r.fused_data.vessel_state.position]
    /\ UNCHANGED <<sensor_fusion, spoofing_detector, anomaly_detector,
                   system_status, processing_times, clock, batches, pc, frame,
                   result, steps, args, before, last_op>>

NextFuse == CallFuse

SpecFuse == InitFuse /\ [][NextFuse]_vars

\* the weight of sensor k's position in the fusion
PositionWeight(k) ==
    IF k = "radar" THEN (sensor_weights[k] * 8) \div 10 ELSE sensor_weights[k]

\* the candidate of sensor k lies farther from the fused position of the
\* previous call than a vessel can travel at 2 x 25.7 m/s
TooFar(k) ==
    /\ calc.prior_history # << >>
    /\ LET last == calc.prior_history[Len(calc.prior_history)]
       IN  10 * haversine_distance(PositionOf(calc.raw_sensor_data, k)[1],
                                   PositionOf(calc.raw_sensor_data, k)[2],
                                   last.lat, last.lon)
              > 2 * 257 * (calc.now - last.time)

\* the candidates of the last call that pass the test, in the order
\* gps, ais, radar
Accepted ==
    LET one(k) == IF CarriesPosition(calc.raw_sensor_data, k) /\ ~TooFar(k)
                  THEN << <<PositionOf(calc.raw_sensor_data, k)[1],
                            PositionOf(calc.raw_sensor_data, k)[2],
                            PositionWeight(k)>> >>
                  ELSE << >>
    IN  one("gps") \o one("ais") \o one("radar")

C26_NoFixIsNoReference ==
    (/\ calc.op = "fuse"
     /\ calc.calls >= 2
     /\ Present(calc.prior_raw) = {}
     /\ Present(calc.raw_sensor_data) = {"gps"}
     /\ calc.now - calc.prior_history[Len(calc.prior_history)].time <= 5)
        => calc.position = PositionOf(calc.raw_sensor_data, "gps")

(***************************************************************************)
(* SensorFusionEngine._fuse_targets on its own.                            *)
(***************************************************************************)
\* AIS target readings: identity 1, 2 or none, at PA or PC
AisTargetReadings ==
    { TargetReading({"latitude", "longitude", "cpa", "tcpa"}
                        \cup (IF m = 0 THEN {} ELSE {"mmsi"}), m, p, 100, 500) :
        m \in {0, 1, 2}, p \in {PA, PC} }

\* radar target readings: 0, 300, 505 and 2000 m from PA, or without position
RadarTargetReadings ==
    { TargetReading({"latitude", "longitude", "cpa"}, 0, p, 50, 0) :
        p \in {PA, PB, PF, PC} }
    \cup { TargetReading({"cpa"}, 0, <<0, 0>>, 50, 0) }

\* a dict with a target list and nothing else
WithTargets(targets) ==
    [EmptyDict EXCEPT !.has = {"targets"}, !.targets = targets]

InitTargets ==
    /\ InitLayer
    /\ \E a \in SeqsUpTo(AisTargetReadings, MaxListLen),
          r \in SeqsUpTo(RadarTargetReadings, MaxListLen) :
          calc = [op |-> "readings", ais |-> a, radar |-> r, targets |-> << >>]

\* targets = engine._fuse_targets({'ais': {'targets': a}, 'radar': {'targets': r}})
CallFuseTargets ==
    /\ calc.op = "readings"
    /\ calc' = [calc EXCEPT
                  !.op = "fuse_targets",
                  !.targets = fuse_targets(
                      Snapshot({"ais", "radar"}, NoneValue,
                               WithTargets(calc.ais), WithTargets(calc.radar)))]
    /\ UNCHANGED <<sensor_fusion, spoofing_detector, anomaly_detector,
                   system_status, processing_times, clock, batches, pc, frame,
                   result, steps, args, before, last_op>>

NextTargets == CallFuseTargets

SpecTargets == InitTargets /\ [][NextTargets]_vars

\* the identities the AIS readings report
Identities ==
    {calc.ais[i].mmsi : i \in {j \in 1..Len(calc.ais) : "mmsi" \in calc.ais[j].has}}

\* the AIS readings without identity
Anonymous == {i \in 1..Len(calc.ais) : "mmsi" \notin calc.ais[i].has}

\* the fused targets that stem from radar alone
RadarOnly == {i \in 1..Len(calc.targets) : calc.targets[i].target_id[1] = "radar"}

\* the fused targets that stem from AIS
FromAis == (1..Len(calc.targets)) \ RadarOnly

\* the radar readings that are not within 500 m of any AIS target
Uncorrelated ==
    {i \in 1..Len(calc.radar) :
        \/ ~({"latitude", "longitude"} \subseteq calc.radar[i].has)
        \/ \A t \in FromAis :
              haversine_distance(calc.radar[i].latitude, calc.radar[i].longitude,
                                 calc.targets[t].position[1],
                                 calc.targets[t].position[2]) >= 500}

\* the last AIS reading that reports identity m
LastReadingOf(m) ==
    calc.ais[CHOOSE i \in 1..Len(calc.ais) :
                /\ "mmsi" \in calc.ais[i].has /\ calc.ais[i].mmsi = m
                /\ \A j \in (i + 1)..Len(calc.ais) :
                      ~("mmsi" \in calc.ais[j].has /\ calc.ais[j].mmsi = m)]

C27_NoAisTargetLost ==
    calc.op = "fuse_targets" =>
        Len(calc.targets) >= Cardinality(Identities) + Cardinality(Anonymous)

(***************************************************************************)
(* UncertaintyModeler.calculate on its own.                                *)
(***************************************************************************)
\* <<kind, severity>> of the anomalies handed to calculate
AdjustAnomalies ==
    { <<"speed_anomaly", 300>>, <<"speed_anomaly", 1000>>,
      <<"sensor_mismatch", 500>>, <<"sensor_degradation", 800>>,
      <<"collision_risk", 4250>>, <<"trajectory_deviation", 1000>> }

AdjustSnapshots ==
    { Snapshot({}, NoneValue, NoneValue, NoneValue),
      Snapshot({"gps"}, Reading(PA, 120, 45), NoneValue, NoneValue),
      Snapshot({"gps", "ais", "radar"}, Reading(PA, 120, 45),
               Reading(PA, 120, 45), RadarReading(PA)) }

\* the anomaly objects for a list of <<kind, severity>>
AnomalyList(ks) ==
    [i \in 1..Len(ks) |-> Anomaly(ks[i][1], ks[i][1], ks[i][2], << >>)]

InitAdjust ==
    /\ InitLayer
    /\ \E raw \in AdjustSnapshots, ks \in SeqsUpTo(AdjustAnomalies, MaxListLen) :
          calc = [op |-> "arguments", raw_sensor_data |-> raw,
                  anomalies |-> AnomalyList(ks),
                  uncertainties |-> << >>]

\* uncertainties = modeler.calculate(fused_data, raw, anomalies)
CallCalculate ==
    /\ calc.op = "arguments"
    /\ calc' = [calc EXCEPT
                  !.op = "calculate",
                  !.uncertainties =
                      uncertainty_calculate([targets |-> << >>],
                          calc.raw_sensor_data, calc.anomalies)]
    /\ UNCHANGED <<sensor_fusion, spoofing_detector, anomaly_detector,
                   system_status, processing_times, clock, batches, pc, frame,
                   result, steps, args, before, last_op>>

NextAdjust == CallCalculate

SpecAdjust == InitAdjust /\ [][NextAdjust]_vars

\* the uncertainties of the same snapshot without any anomaly
Unadjusted == uncertainty_calculate([targets |-> << >>], calc.raw_sensor_data, << >>)

\* 1 + the largest severity of the batch
Impact ==
    One + MaxSeq([i \in 1..Len(calc.anomalies) |-> calc.anomalies[i].severity])

RECURSIVE ExpectedStdDev(_, _, _)
\* sd multiplied by Impact once per anomaly whose kind name contains p
ExpectedStdDev(sd, anomalies, p) ==
    IF anomalies = << >> THEN sd
    ELSE ExpectedStdDev(
             IF p \in {"position", "speed"}
                  /\ TypeNameContains(Head(anomalies).anomaly_type, p)
             THEN (sd * Impact) \div One ELSE sd,
             Tail(anomalies), p)

RECURSIVE ExpectedReliability(_, _, _)
\* r multiplied by (1 - 0.3 s) per anomaly whose kind name contains p and by
\* (1 - 0.2 s) per anomaly whose kind name contains "sensor"
ExpectedReliability(r, anomalies, p) ==
    IF anomalies = << >> THEN r
    ELSE LET a  == Head(anomalies)
             r1 == IF p \in {"position", "speed"}
                        /\ TypeNameContains(a.anomaly_type, p)
                   THEN (r * (One - (a.severity * 3) \div 10)) \div One ELSE r
             r2 == IF TypeNameContains(a.anomaly_type, "sensor")
                   THEN (r1 * (One - (a.severity * 2) \div 10)) \div One ELSE r1
         IN  ExpectedReliability(r2, Tail(anomalies), p)

\* C23: with impact = 1 + max severity, each anomaly whose kind name contains
\* "speed" multiplies the speed standard deviation by impact and the speed
\* reliability by (1 - 0.3 x severity), "position" likewise for position,
\* each anomaly whose kind name contains "sensor" multiplies every
\* reliability by (1 - 0.2 x severity); the effects accumulate, every other
\* standard deviation is unchanged and every reliability stays in [0,1].
C23_AnomalyAdjustment ==
    calc.op = "calculate" =>
        \A p \in Parameters :
            /\ calc.uncertainties[p].std_deviation
                  = ExpectedStdDev(Unadjusted[p].std_deviation, calc.anomalies, p)
            /\ p \notin {"position", "speed"}
                  => calc.uncertainties[p].std_deviation
                        = Unadjusted[p].std_deviation
            /\ calc.uncertainties[p].reliability
                  = ExpectedReliability(Unadjusted[p].reliability,
                                        calc.anomalies, p)
            /\ calc.uncertainties[p].reliability \in 0..One

\* a speed anomaly of severity 1.0 after a sensor degradation of 0.8: the
\* speed sigma is doubled, its reliability 0.7 x 0.84 x 0.7, the tide
\* reliability 0.8 x 0.84
C23_Witness ==
    /\ calc.op = "calculate"
    /\ Len(calc.anomalies) = 2
    /\ calc.anomalies[1].anomaly_type = "sensor_degradation"
    /\ calc.anomalies[2].anomaly_type = "speed_anomaly"
    /\ calc.anomalies[2].severity = One
    /\ calc.uncertainties["speed"].std_deviation
          = 2 * Unadjusted["speed"].std_deviation
    /\ Unadjusted["speed"].reliability = 700
    /\ calc.uncertainties["speed"].reliability = 411
    /\ calc.uncertainties["tide"].reliability = 672

(***************************************************************************)
(* A vessel's track: fuse and AnomalyDetector.detect, batch after batch,   *)
(* 5 s apart, with reset() in between.  calc.log holds, per detect call    *)
(* since construction or reset, the kinds of the anomalies it returned.    *)
(***************************************************************************)
\* 100 m beyond PA on the line through PA
PA1 == <<3060, 4080>>

\* 200 m beyond PA
PA2 == <<3120, 4160>>

TrackSnapshots ==
    { Snapshot({}, NoneValue, NoneValue, NoneValue),
      Snapshot({"gps"}, Reading(PA, 120, 45), NoneValue, NoneValue),
      Snapshot({"gps"}, Reading(PA, 300, 45), NoneValue, NoneValue),
      Snapshot({"gps"}, Reading(PA1, 120, 45), NoneValue, NoneValue),
      Snapshot({"gps"}, Reading(PA2, 120, 45), NoneValue, NoneValue) }

NoVesselState ==
    [position |-> <<0, 0>>, speed |-> 0, course |-> 0, heading |-> 0,
     rate_of_turn |-> 0]

InitTrack ==
    /\ InitLayer
    /\ calc = [op |-> "constructed", calls |-> 0, now |-> 0,
               position_history |-> << >>, ad |-> NewAnomalyDetector,
               vessel_state |-> NoVesselState, anomalies |-> << >>,
               log |-> << >>]

\* fused_data = fusion.fuse(raw); anomalies = detector.detect(fused_data, raw)
CallTrackDetect ==
    /\ calc.calls < MaxCalls
    /\ \E raw \in TrackSnapshots, dt \in Elapsed :
          LET now == calc.now + dt
              f == fuse(calc.position_history, raw, now)
              r == anomaly_detect(calc.ad, f.fused_data, raw, now)
          IN  /\ ~f.raised
              /\ ~r.raised
              /\ calc' = [op |-> "detect", calls |-> calc.calls + 1, now |-> now,
                          position_history |-> f.position_history,
                          ad |-> r.ad,
                          vessel_state |-> f.fused_data.vessel_state,
                          anomalies |-> r.anomalies,
                          log |-> Append(calc.log,
                                    {r.anomalies[i].anomaly_type :
                                        i \in 1..Len(r.anomalies)})]
    /\ UNCHANGED <<sensor_fusion, spoofing_detector, anomaly_detector,
                   system_status, processing_times, clock, batches, pc, frame,
                   result, steps, args, before, last_op>>

\* reset() constructs the fusion engine and the detector anew
ResetTrack ==
    /\ calc.op = "detect"
    /\ calc' = [calc EXCEPT
                  !.op = "reset",
                  !.position_history =
                      reset(NewLayer).sensor_fusion.position_history,
                  !.ad = reset(NewLayer).anomaly_detector,
                  !.anomalies = << >>,
                  !.log = << >>]
    /\ UNCHANGED <<sensor_fusion, spoofing_detector, anomaly_detector,
                   system_status, processing_times, clock, batches, pc, frame,
                   result, steps, args, before, last_op>>

NextTrack == CallTrackDetect \/ ResetTrack

SpecTrack == InitTrack /\ [][NextTrack]_vars

\* the last detect call returned an anomaly of this kind
Reported(kind) ==
    \E i \in 1..Len(calc.anomalies) : calc.anomalies[i].anomaly_type = kind

\* the current speed differs by more than 5 knots from the mean of the
\* speed history, the current speed included
SpeedOffMean ==
    LET h == calc.ad.speed_history
    IN  Abs(calc.vessel_state.speed * Len(h) - SumSeq(h)) > 50 * Len(h)

\* C24: detect appends the new fused speed, course and position to the
\* histories before it runs any check; the first call after construction or
\* reset reports no speed anomaly and no trajectory deviation, a speed
\* anomaly is possible from the second call on and a trajectory deviation
\* from the third call on.
C24_HistoryBeforeChecks ==
    calc.op = "detect" =>
        LET ad == calc.ad
            n == Len(calc.log)
        IN  /\ Len(ad.speed_history) = n
            /\ Len(ad.course_history) = n
            /\ Len(ad.position_history) = n
            /\ ad.speed_history[n] = calc.vessel_state.speed
            /\ ad.course_history[n] = calc.vessel_state.course
            /\ ad.position_history[n]
                  = [lat |-> calc.vessel_state.position[1],
                     lon |-> calc.vessel_state.position[2], time |-> calc.now]
            /\ Reported("speed_anomaly") <=> (n >= 2 /\ SpeedOffMean)
            /\ n = 1 => ~Reported("speed_anomaly")
            /\ n < 3 => ~Reported("trajectory_deviation")

\* three calls: nothing on the first, a speed anomaly on the second, a
\* trajectory deviation on the third
C24_Witness ==
    /\ calc.op = "detect"
    /\ Len(calc.log) = 3
    /\ calc.log[1] \cap {"speed_anomaly", "trajectory_deviation"} = {}
    /\ "speed_anomaly" \in calc.log[2]
    /\ "trajectory_deviation" \in calc.log[3]

\* the last three recorded positions are equally spaced in time and space:
\* a straight track at constant speed
OnStraightTrack ==
    LET h == calc.ad.position_history
        n == Len(h)
    IN  /\ n >= 3
        /\ h[n].time - h[n - 1].time = h[n - 1].time - h[n - 2].time
        /\ h[n].lat - h[n - 1].lat = h[n - 1].lat - h[n - 2].lat
        /\ h[n].lon - h[n - 1].lon = h[n - 1].lon - h[n - 2].lon

\* C28: the trajectory check compares the current fused position with a
\* prediction made from the two positions recorded before the current batch,
\* so a vessel that stays on its straight track at constant speed is never
\* reported as deviating.
C28_OnTrackNeverDeviates ==
    (calc.op = "detect" /\ OnStraightTrack)
        => ~Reported("trajectory_deviation")

(***************************************************************************)
(* The component status over the life of a layer, checked under Spec.      *)
(***************************************************************************)
AllDegraded(status) == \A c \in Components : status[c] = "degraded"

\* the step is a call of reset()
ResetStep == pc = "idle" /\ pc' = "idle" /\ last_op' = "reset"

\* C25: degraded status is sticky: once a batch has failed, the status in
\* every later output and the one get_system_status returns report every
\* component as "degraded", also for batches that succeed, until reset() is
\* called; only reset() sets a status to "operational".
C25_DegradedIsSticky ==
    [][ /\ pc' = "raised" => AllDegraded(system_status')
        /\ (AllDegraded(system_status) /\ ~ResetStep)
              => /\ AllDegraded(system_status')
                 /\ AllDegraded(get_system_status(system_status'))
                 /\ pc' = "returned" => AllDegraded(result'.output.system_status)
        /\ (\E c \in Components :
               system_status[c] # "operational"
                  /\ system_status'[c] = "operational") => ResetStep
      ]_vars

\* the first batch failed, the second has returned an output that reports
\* every component as degraded
C25_Witness ==
    /\ batches = 2
    /\ pc = "returned"
    /\ last_op = "batch_ok"
    /\ AllDegraded(result.output.system_status)
    /\ AllDegraded(get_system_status(system_status))

(***************************************************************************)
(* video_server.py: start_processing, stop_processing and reset_video are  *)
(* request handlers (the server is threaded), process_video_loop is the    *)
(* thread start_processing creates.  Each with-block on processing_lock is *)
(* one step.  calc holds processing_state (is_processing, video_loaded),   *)
(* frames (frames the video processor has left), pending (handlers that    *)
(* have left the with-block of start_processing and have not yet started   *)
(* their thread) and loops (the position of every thread: "unborn",        *)
(* "check" before the with-block at the top of the loop, "frame" before    *)
(* process_frame, "layer" inside sa_layer.process_sensor_data, "update"    *)
(* before the with-block that stores the output, "ended").                 *)
(***************************************************************************)
MaxLoops == 2
VideoFrames == 2
LoopThreads == 1..MaxLoops

InitVideo ==
    /\ InitLayer
    /\ calc = [op |-> "server",
               processing_state |-> [is_processing |-> FALSE,
                                     video_loaded |-> FALSE],
               frames |-> 0, pending |-> 0,
               loops |-> [t \in LoopThreads |-> "unborn"]]

\* upload_video: load_video succeeds
upload_video ==
    /\ calc' = [calc EXCEPT !.op = "upload",
                            !.processing_state.video_loaded = TRUE,
                            !.frames = VideoFrames]
    /\ UNCHANGED <<sensor_fusion, spoofing_detector, anomaly_detector, system_status,
                   processing_times, clock, batches, pc, frame, result, steps,
                   args, before, last_op>>

\* start_processing, the with-block: neither early return is taken
start_processing ==
    /\ calc.processing_state.video_loaded
    /\ ~calc.processing_state.is_processing
    /\ calc.pending
          + Cardinality({t \in LoopThreads : calc.loops[t] # "unborn"}) < MaxLoops
    /\ calc' = [calc EXCEPT !.op = "start",
                            !.processing_state.is_processing = TRUE,
                            !.pending = @ + 1]
    /\ UNCHANGED <<sensor_fusion, spoofing_detector, anomaly_detector, system_status,
                   processing_times, clock, batches, pc, frame, result, steps,
                   args, before, last_op>>

\* start_processing, after the with-block: threading.Thread(...).start()
thread_start ==
    /\ calc.pending > 0
    /\ \E t \in LoopThreads :
          /\ calc.loops[t] = "unborn"
          /\ \A u \in LoopThreads : u < t => calc.loops[u] # "unborn"
          /\ calc' = [calc EXCEPT !.op = "thread_start", !.pending = @ - 1,
                                  !.loops[t] = "check"]
    /\ UNCHANGED <<sensor_fusion, spoofing_detector, anomaly_detector, system_status,
                   processing_times, clock, batches, pc, frame, result, steps,
                   args, before, last_op>>

\* stop_processing
stop_processing ==
    /\ calc' = [calc EXCEPT !.op = "stop",
                            !.processing_state.is_processing = FALSE]
    /\ UNCHANGED <<sensor_fusion, spoofing_detector, anomaly_detector, system_status,
                   processing_times, clock, batches, pc, frame, result, steps,
                   args, before, last_op>>

\* reset_video: video_processor.reset() rewinds a loaded video
reset_video ==
    /\ calc' = [calc EXCEPT !.op = "reset",
                            !.processing_state.is_processing = FALSE,
                            !.frames = IF calc.processing_state.video_loaded
                                       THEN VideoFrames ELSE @]
    /\ UNCHANGED <<sensor_fusion, spoofing_detector, anomaly_detector, system_status,
                   processing_times, clock, batches, pc, frame, result, steps,
                   args, before, last_op>>

\* process_video_loop: with processing_lock: if not is_processing: break
loop_check(t) ==
    /\ calc.loops[t] = "check"
    /\ calc' = [calc EXCEPT !.op = "loop_check",
                            !.loops[t] = IF calc.processing_state.is_processing
                                         THEN "frame" ELSE "ended"]
    /\ UNCHANGED <<sensor_fusion, spoofing_detector, anomaly_detector, system_status,
                   processing_times, clock, batches, pc, frame, result, steps,
                   args, before, last_op>>

\* process_video_loop: sensor_data = video_processor.process_frame(); at the
\* end of the video, and when the call raises, is_processing is cleared and
\* the loop ends; otherwise the thread enters process_sensor_data
loop_frame(t) ==
    /\ calc.loops[t] = "frame"
    /\ \/ /\ calc.frames > 0
          /\ calc' = [calc EXCEPT !.op = "loop_frame", !.frames = @ - 1,
                                  !.loops[t] = "layer"]
       \/ /\ calc.frames = 0
          /\ calc' = [calc EXCEPT !.op = "loop_end_of_video",
                                  !.processing_state.is_processing = FALSE,
                                  !.loops[t] = "ended"]
       \/ /\ calc' = [calc EXCEPT !.op = "loop_frame_raised",
                                  !.processing_state.is_processing = FALSE,
                                  !.loops[t] = "ended"]
    /\ UNCHANGED <<sensor_fusion, spoofing_detector, anomaly_detector, system_status,
                   processing_times, clock, batches, pc, frame, result, steps,
                   args, before, last_op>>

\* process_video_loop: sa_layer.process_sensor_data(sensor_data) returns or
\* raises
loop_layer(t) ==
    /\ calc.loops[t] = "layer"
    /\ \/ calc' = [calc EXCEPT !.op = "loop_layer", !.loops[t] = "update"]
       \/ calc' = [calc EXCEPT !.op = "loop_layer_raised",
                               !.processing_state.is_processing = FALSE,
                               !.loops[t] = "ended"]
    /\ UNCHANGED <<sensor_fusion, spoofing_detector, anomaly_detector, system_status,
                   processing_times, clock, batches, pc, frame, result, steps,
                   args, before, last_op>>

\* process_video_loop: the output is stored under the lock, then
\* time.sleep(0.1) and back to the top of the loop
loop_update(t) ==
    /\ calc.loops[t] = "update"
    /\ calc' = [calc EXCEPT !.op = "loop_update", !.loops[t] = "check"]
    /\ UNCHANGED <<sensor_fusion, spoofing_detector, anomaly_detector, system_status,
                   processing_times, clock, batches, pc, frame, result, steps,
                   args, before, last_op>>

NextVideo ==
    \/ upload_video
    \/ start_processing
    \/ thread_start
    \/ stop_processing
    \/ reset_video
    \/ \E t \in LoopThreads : loop_check(t)
    \/ \E t \in LoopThreads : loop_frame(t)
    \/ \E t \in LoopThreads : loop_layer(t)
    \/ \E t \in LoopThreads : loop_update(t)

SpecVideo == InitVideo /\ [][NextVideo]_vars

\* threads inside process_video_loop
Running == {t \in LoopThreads : calc.loops[t] \notin {"unborn", "ended"}}

\* threads inside sa_layer.process_sensor_data
InLayer == {t \in LoopThreads : calc.loops[t] = "layer"}

\* C29: in the video server at most one process_video_loop thread is running
\* at any time and at most one call of the shared layer's
\* process_sensor_data is in progress, for every interleaving of start, stop
\* and reset requests with the loop thread.
C29_OneLoopThread ==
    /\ Cardinality(Running) <= 1
    /\ Cardinality(InLayer) <= 1

(***************************************************************************)
(* demo_server.py, POST /api/reset: reset_system calls sa_layer.reset()    *)
(* on its request thread, without a lock, while the background thread runs *)
(* process_sensor_data.  The statements of reset() are single steps.  calc *)
(* holds, next to the server's fields, handler (0: no reset in progress,   *)
(* n: the n-th statement of reset() is next), resets (the requests so      *)
(* far), started (the number of batches begun when the latest reset        *)
(* began) and replaced (for every                                          *)
(* module, whether the latest reset has constructed it anew, the batch     *)
(* that was the latest one then and the steps of that batch that had       *)
(* already run on the old instance).                                       *)
(***************************************************************************)
\* the attributes reset() assigns, in its order
ResetModules ==
    <<"sensor_fusion", "anomaly_detector", "spoofing_detector",
      "uncertainty_modeler">>

\* the keys of system_status, in the order the loop of reset() visits them
StatusKeys ==
    <<"sensor_fusion", "anomaly_detection", "spoofing_detection",
      "uncertainty_modeling">>

\* the step of process_sensor_data that calls into the module
StepOf(m) ==
    CASE m = "sensor_fusion"       -> "fuse"
      [] m = "spoofing_detector"   -> "spoofing"
      [] m = "anomaly_detector"    -> "anomaly"
      [] m = "uncertainty_modeler" -> "uncertainty"

\* reset requests in one run
MaxResets == 1

\* batches the background thread runs in one run
ResetBatches == 2

NotReplaced == [done |-> FALSE, at |-> 0, ran |-> FALSE]

\* the steps the latest batch has run
RanSteps == {steps[i] : i \in 1..Len(steps)}

InitReset ==
    /\ InitLayer
    /\ calc = [op |-> "server", latest_output |-> NoOutput, lock |-> "free",
               worker |-> "run", reader |-> "idle",
               response |-> [status |-> "none", batch |-> 0, body |-> << >>],
               handler |-> 0, resets |-> 0, started |-> 0,
               replaced |-> [i \in 1..Len(ResetModules) |-> NotReplaced]]

\* the sensor data the simulator generates
ResetSnapshots ==
    { Disagreeing,
      Snapshot({"radar"}, NoneValue, NoneValue, RadarReading(PA)) }

\* sensor_data = simulator.generate_sensor_data();
\* the thread enters sa_layer.process_sensor_data(sensor_data)
WorkerStartBatch ==
    /\ pc = "idle"
    /\ batches < ResetBatches
    /\ \E sd \in ResetSnapshots, dt \in Elapsed :
          /\ frame' = [EmptyFrame EXCEPT !.sensor_data = sd]
          /\ clock' = clock + dt
    /\ batches' = batches + 1
    /\ pc' = "fuse"
    /\ steps' = << >>
    /\ args' = NoArgs
    /\ before' = Modules
    /\ result' = NoResult
    /\ UNCHANGED <<calc, sensor_fusion, spoofing_detector, anomaly_detector,
                   system_status, processing_times, last_op>>

\* reset_system: the handler enters sa_layer.reset()
reset_system ==
    /\ calc.handler = 0
    /\ calc.resets < MaxResets
    /\ calc' = [calc EXCEPT !.op = "reset", !.handler = 1, !.resets = @ + 1,
                            !.started = batches,
                            !.replaced = [i \in 1..Len(ResetModules)
                                             |-> NotReplaced]]
    /\ UNCHANGED <<sensor_fusion, spoofing_detector, anomaly_detector,
                   system_status, processing_times, clock, batches, pc, frame,
                   result, steps, args, before, last_op>>

\* reset(): self.<module> = <Module>(config=...), one module per step
reset_module ==
    /\ calc.handler \in 1..Len(ResetModules)
    /\ LET m == ResetModules[calc.handler]
           r == reset(Layer)
       IN  /\ sensor_fusion' = IF m = "sensor_fusion"
                               THEN r.sensor_fusion ELSE sensor_fusion
           /\ anomaly_detector' = IF m = "anomaly_detector"
                                  THEN r.anomaly_detector ELSE anomaly_detector
           /\ spoofing_detector' = IF m = "spoofing_detector"
                                   THEN r.spoofing_detector
                                   ELSE spoofing_detector
           /\ calc' = [calc EXCEPT
                         !.handler = @ + 1,
                         !.replaced[calc.handler] =
                            [done |-> TRUE, at |-> batches,
                             ran |-> StepOf(m) \in RanSteps]]
    /\ UNCHANGED <<system_status, processing_times, clock, batches, pc, frame,
                   result, steps, args, before, last_op>>

\* reset(): self.processing_times.clear()
reset_metrics ==
    /\ calc.handler = Len(ResetModules) + 1
    /\ processing_times' = reset(Layer).processing_times
    /\ calc' = [calc EXCEPT !.handler = @ + 1]
    /\ UNCHANGED <<sensor_fusion, spoofing_detector, anomaly_detector,
                   system_status, clock, batches, pc, frame, result, steps,
                   args, before, last_op>>

\* reset(): self.system_status[module] = 'operational', one key per step;
\* after the last key reset() and the handler return
reset_status ==
    /\ calc.handler > Len(ResetModules) + 1
    /\ LET k == calc.handler - Len(ResetModules) - 1
       IN  /\ system_status' =
                 [system_status EXCEPT
                     ![StatusKeys[k]] = reset(Layer).system_status[StatusKeys[k]]]
           /\ IF k = Len(StatusKeys)
              THEN /\ calc' = [calc EXCEPT !.handler = 0]
                   /\ last_op' = "reset"
              ELSE /\ calc' = [calc EXCEPT !.handler = @ + 1]
                   /\ last_op' = last_op
    /\ UNCHANGED <<sensor_fusion, spoofing_detector, anomaly_detector,
                   processing_times, clock, batches, pc, frame, result, steps,
                   args, before>>

NextReset ==
    \/ WorkerStartBatch
    \/ StepFuse
    \/ StepSpoofing
    \/ StepAnomaly
    \/ StepUncertainty
    \/ StepConfidence
    \/ StepAlerts
    \/ StepOutput
    \/ StepRaises
    \/ WorkerAcquire
    \/ WorkerAssign
    \/ WorkerRelease
    \/ WorkerCatch
    \/ reset_system
    \/ reset_module
    \/ reset_metrics
    \/ reset_status

SpecReset == InitReset /\ [][NextReset]_vars

\* the latest batch has run the step of module i on the instance the latest
\* reset replaced
UsedOld(i) ==
    /\ StepOf(ResetModules[i]) \in RanSteps
    /\ IF calc.replaced[i].done
       THEN calc.replaced[i].at = batches /\ calc.replaced[i].ran
       ELSE calc.handler # 0

\* the latest batch has run the step of module i on the instance the latest
\* reset constructed
UsedNew(i) ==
    /\ StepOf(ResetModules[i]) \in RanSteps
    /\ calc.replaced[i].done
    /\ ~(calc.replaced[i].at = batches /\ calc.replaced[i].ran)

\* C30: in the demo server a reset never splits a batch: no batch runs some
\* steps on module instances from before the reset and some on instances
\* from after it, and once the reset and the batch in flight have finished,
\* processing_times holds no sample of a batch that started before the reset.
C30_ResetNeverSplitsBatch ==
    /\ ~(\E i, j \in 1..Len(ResetModules) : UsedOld(i) /\ UsedNew(j))
    /\ (calc.handler = 0 /\ pc = "idle")
          => \A i \in 1..Len(processing_times) :
                processing_times[i] > calc.started

=============================================================================
